---- MODULE Spec2Model ----
(***************************************************************************)
(* The SIEMBox detection engine (src/detection/main.py): rule loading at   *)
(* startup, the rule-state map and its periodic refresh, the rule matchers *)
(* and the /analyze, /rules/toggle, /rules, /stats and /health handlers.   *)
(*                                                                         *)
(* Text is a sequence of character codes, so that str.lower(), the `in`    *)
(* substring test and str.split are computed and not assumed.  Rule ids    *)
(* are only ever compared or used as dictionary keys; they are TLA+        *)
(* strings.  A Python dict is a function; {} is the empty function <<>>.   *)
(***************************************************************************)
EXTENDS Integers, Sequences, FiniteSets, TLC

----------------------------------------------------------------------------
(* Bounds of the model.                                                    *)

\* /analyze calls that pass the filters (caps stats["processed_logs"]).
MaxLogs == 2
\* The clock stops advancing at MaxTime hours.
MaxTime == 26
\* Longest corpus (number of files under rules/) drawn by InitLoad.
MaxFiles == 2
\* Scaled capacities of the three deques: maxlen=1000 (processed_log_ids),
\* maxlen=1440 (alerts) and maxlen=60 (last_minute_logs) in the source.
DedupCap == 2
AlertsCap == 2
RateCap == 2
\* /analyze calls that pass the filters in the dedup ring's specification:
\* enough to fill the ring, push the oldest id out and send it again.
MaxRingLogs == 4

----------------------------------------------------------------------------
(* Program constants.                                                      *)

\* load_rules: max_retries = 3
load_max_retries == 3
\* startup_event: max_retries, the attempts its fetch loop allows.
fetch_max_retries == 5
\* update_alert_stats: timedelta(hours=24)
WindowHours == 24
\* The clock advances in steps of 13 hours, so that two steps pass 24 hours.
TickHours == 13
\* time.time() counts seconds; the clock of the model counts hours.
SecondsPerHour == 3600

----------------------------------------------------------------------------
(* Text.                                                                   *)

s_auth == <<97, 117, 116, 104>>  \* "auth"
s_api == <<97, 112, 105>>  \* "api"
s_collector == <<99, 111, 108, 108, 101, 99, 116, 111, 114>>  \* "collector"
s_detection == <<100, 101, 116, 101, 99, 116, 105, 111, 110>>  \* "detection"
s_iplookup == <<105, 112, 108, 111, 111, 107, 117, 112>>  \* "iplookup"
s_frontend == <<102, 114, 111, 110, 116, 101, 110, 100>>  \* "frontend"
s_detections_page == <<100, 101, 116, 101, 99, 116, 105, 111, 110, 115, 95, 112, 97, 103, 101>>  \* "detections_page"
s_unknown == <<117, 110, 107, 110, 111, 119, 110>>  \* "unknown"
s_ocsf == <<111, 99, 115, 102>>  \* "ocsf"
s_ssh == <<115, 115, 104>>  \* "ssh"
s_openssh_failed == <<111, 112, 101, 110, 115, 115, 104, 45, 102, 97, 105, 108, 101, 100>>  \* "openssh-failed"
s_apache == <<97, 112, 97, 99, 104, 101>>  \* "apache"
s_product == <<112, 114, 111, 100, 117, 99, 116>>  \* "product"
s_product_contains == <<112, 114, 111, 100, 117, 99, 116, 124, 99, 111, 110, 116, 97, 105, 110, 115>>  \* "product|contains"
s_category == <<99, 97, 116, 101, 103, 111, 114, 121>>  \* "category"
s_user == <<117, 115, 101, 114>>  \* "user"
s_User == <<85, 115, 101, 114>>  \* "User"
s_Admin == <<65, 100, 109, 105, 110>>  \* "Admin"
s_admin == <<97, 100, 109, 105, 110>>  \* "admin"
s_ADMIN == <<65, 68, 77, 73, 78>>  \* "ADMIN"
s_sshd == <<115, 115, 104, 100>>  \* "sshd"
s_program == <<112, 114, 111, 103, 114, 97, 109>>  \* "program"
s_Authentication == <<65, 117, 116, 104, 101, 110, 116, 105, 99, 97, 116, 105, 111, 110>>  \* "Authentication"
s_authentication == <<97, 117, 116, 104, 101, 110, 116, 105, 99, 97, 116, 105, 111, 110>>  \* "authentication"
s_Logon == <<76, 111, 103, 111, 110>>  \* "Logon"
s_contains_mod == <<124, 99, 111, 110, 116, 97, 105, 110, 115>>  \* "|contains"
s_Fail == <<70, 97, 105, 108>>  \* "Fail"
s_linux == <<108, 105, 110, 117, 120>>  \* "linux"
s_empty == <<>>  \* ""
s_service == <<115, 101, 114, 118, 105, 99, 101>>  \* "service"
s_source == <<115, 111, 117, 114, 99, 101>>  \* "source"
s_OpenSSH == <<79, 112, 101, 110, 83, 83, 72>>  \* "OpenSSH"
s_SSH == <<83, 83, 72>>  \* "SSH"
s_Network_Activity == <<78, 101, 116, 119, 111, 114, 107, 32, 65, 99, 116, 105, 118, 105, 116, 121>>  \* "Network Activity"
s_Traffic == <<84, 114, 97, 102, 102, 105, 99>>  \* "Traffic"
s_Apache == <<65, 112, 97, 99, 104, 101>>  \* "Apache"

\* str.lower() on ASCII text.
Lower(s) == [i \in 1..Len(s) |-> IF s[i] \in 65..90 THEN s[i] + 32 ELSE s[i]]

\* Python's `sub in s` on strings.
Contains(sub, s) ==
    \E k \in 0..(Len(s) - Len(sub)) : SubSeq(s, k + 1, k + Len(sub)) = sub

\* field.split('|')[0]: the text before the first '|' (code 124).
BeforeBar(s) ==
    IF \E i \in 1..Len(s) : s[i] = 124
    THEN LET first == CHOOSE i \in 1..Len(s) :
                          s[i] = 124 /\ \A j \in 1..(i - 1) : s[j] # 124
         IN SubSeq(s, 1, first - 1)
    ELSE s

\* dict.get(key, default)
Get(d, key, default) == IF key \in DOMAIN d THEN d[key] ELSE default

\* dict.update(other)
Update(d, other) ==
    [k \in (DOMAIN d) \cup (DOMAIN other) |->
        IF k \in DOMAIN other THEN other[k] ELSE d[k]]

\* The empty dict.
EmptyDict == <<>>

----------------------------------------------------------------------------
(* Rule files.  A file is [stem, ext, dir, doc]: its name without and with *)
(* extension, its directory under rules/ (path components) and what        *)
(* yaml.safe_load makes of its content.                                    *)

\* yaml.safe_load raises.
YamlError == [kind |-> "error"]
\* yaml.safe_load returns something that is not a dict (a scalar, a list).
YamlScalar == [kind |-> "scalar"]
\* yaml.safe_load returns the dict `data`.
YamlMap(data) == [kind |-> "map", data |-> data]

\* A rule value: a scalar or a list of scalars.
Str(s) == [t |-> "str", s |-> s]
List(l) == [t |-> "list", l |-> l]
\* detection['selection']: a dict of field -> value, or something else.
SelDict(fields) == [isdict |-> TRUE, fields |-> fields]
SelNotDict == [isdict |-> FALSE, fields |-> EmptyDict]
\* A detection / logsource that is a dict, or one pydantic refuses.
Dict(d) == [isdict |-> TRUE, d |-> d]
NotDict == [isdict |-> FALSE, d |-> EmptyDict]

\* The rule of the spec's scenario: product|contains: ssh, empty logsource.
f_ssh ==
    [stem |-> "ssh_rule", ext |-> "yml", dir |-> <<"linux">>,
     doc |-> YamlMap([id |-> "r1", title |-> "SSH", level |-> "high",
                      detection |-> Dict([selection |->
                          SelDict(s_product_contains :> Str(s_ssh))]),
                      logsource |-> Dict(EmptyDict)])]
\* A rule whose selection has no fields; no logsource and no level key.
f_empty ==
    [stem |-> "empty_rule", ext |-> "yaml", dir |-> <<>>,
     doc |-> YamlMap([id |-> "r2", title |-> "Empty",
                      detection |-> Dict([selection |-> SelDict(EmptyDict)])])]
\* A second file with id r1: keywords, logsource.service = auth.
f_dup ==
    [stem |-> "dup_rule", ext |-> "yml", dir |-> <<"linux", "auth">>,
     doc |-> YamlMap([id |-> "r1", title |-> "Dup", level |-> "low",
                      detection |-> Dict([keywords |-> List(<<s_Fail, s_apache>>)]),
                      logsource |-> Dict(s_service :> s_auth)])]
\* No id key: the id is the file name's stem.  Exact match user = Admin.
f_noid ==
    [stem |-> "r3", ext |-> "yml", dir |-> <<"windows">>,
     doc |-> YamlMap([title |-> "Admin", level |-> "medium",
                      detection |-> Dict([selection |->
                          SelDict(s_user :> Str(s_Admin))]),
                      logsource |-> Dict(s_category :> s_authentication)])]
\* Bad files.
f_badyaml == [stem |-> "broken", ext |-> "yml", dir |-> <<>>, doc |-> YamlError]
f_scalar == [stem |-> "scalar", ext |-> "yml", dir |-> <<>>, doc |-> YamlScalar]
f_nodetection ==
    [stem |-> "nodet", ext |-> "yml", dir |-> <<>>,
     doc |-> YamlMap([id |-> "r1", title |-> "NoDetection"])]
f_notitle ==
    [stem |-> "notitle", ext |-> "yaml", dir |-> <<>>,
     doc |-> YamlMap([id |-> "r2",
                      detection |-> Dict([selection |-> SelDict(EmptyDict)])])]
\* detection is a list: Rule(...) raises a ValidationError.
f_badtype ==
    [stem |-> "badtype", ext |-> "yml", dir |-> <<>>,
     doc |-> YamlMap([id |-> "r2", title |-> "BadType", detection |-> NotDict])]
\* Not a rule file at all.
f_readme == [stem |-> "README", ext |-> "md", dir |-> <<>>, doc |-> YamlError]

\* The rule of f_noid with its value in upper case.
f_user_upper ==
    [stem |-> "r4", ext |-> "yml", dir |-> <<"windows">>,
     doc |-> YamlMap([title |-> "Admin", level |-> "medium",
                      detection |-> Dict([selection |->
                          SelDict(s_user :> Str(s_ADMIN))]),
                      logsource |-> Dict(s_category :> s_authentication)])]
\* product|contains with a list of values, one in upper case; no logsource.
f_ssh_list ==
    [stem |-> "ssh_list", ext |-> "yml", dir |-> <<"linux">>,
     doc |-> YamlMap([id |-> "r5", title |-> "SSH list", level |-> "high",
                      detection |-> Dict([selection |->
                          SelDict(s_product_contains :>
                                      List(<<s_Fail, s_SSH>>))]),
                      logsource |-> Dict(EmptyDict)])]
\* Keywords, logsource.category = authentication.
f_kw_auth ==
    [stem |-> "kw_auth", ext |-> "yml", dir |-> <<"linux">>,
     doc |-> YamlMap([id |-> "r6", title |-> "Keyword", level |-> "low",
                      detection |-> Dict([keywords |-> List(<<s_apache>>)]),
                      logsource |-> Dict(s_category :> s_authentication)])]
\* A selection of two fields, one exact and one |contains; no logsource.
f_two ==
    [stem |-> "two", ext |-> "yml", dir |-> <<"linux">>,
     doc |-> YamlMap([id |-> "r7", title |-> "Two fields", level |-> "high",
                      detection |-> Dict([selection |->
                          SelDict((s_user :> Str(s_admin))
                                  @@ (s_product_contains :> Str(s_ssh)))]),
                      logsource |-> Dict(EmptyDict)])]
\* logsource.service = auth; the detection is a keyword every serialized
\* legacy event holds (the key "source").
f_ls_service ==
    [stem |-> "ls_service", ext |-> "yml", dir |-> <<"linux">>,
     doc |-> YamlMap([id |-> "r8", title |-> "Service", level |-> "low",
                      detection |-> Dict([keywords |-> Str(s_source)]),
                      logsource |-> Dict(s_service :> s_auth)])]
\* logsource.product and logsource.category in mixed case; the same keyword.
f_ls_product ==
    [stem |-> "ls_product", ext |-> "yml", dir |-> <<"web">>,
     doc |-> YamlMap([id |-> "r9", title |-> "Product", level |-> "low",
                      detection |-> Dict([keywords |-> Str(s_source)]),
                      logsource |-> Dict((s_product :> s_Apache)
                                         @@ (s_category :> s_Authentication))])]
\* A selection and keywords in one detection; no logsource.
f_sel_kw ==
    [stem |-> "sel_kw", ext |-> "yml", dir |-> <<"linux">>,
     doc |-> YamlMap([id |-> "r10", title |-> "Selection and keywords",
                      level |-> "low",
                      detection |-> Dict([selection |->
                                              SelDict(s_user :> Str(s_admin)),
                                          keywords |-> List(<<s_apache>>)]),
                      logsource |-> Dict(EmptyDict)])]
\* Keywords as a list, one in mixed case; no logsource.
f_kw_list ==
    [stem |-> "kw_list", ext |-> "yml", dir |-> <<"linux">>,
     doc |-> YamlMap([id |-> "r11", title |-> "Keyword list", level |-> "low",
                      detection |-> Dict([keywords |->
                                              List(<<s_sshd, s_Apache>>)]),
                      logsource |-> Dict(EmptyDict)])]
\* The selection's field name starts with a capital; no logsource.
f_User ==
    [stem |-> "field_upper", ext |-> "yml", dir |-> <<"linux">>,
     doc |-> YamlMap([id |-> "r12", title |-> "User", level |-> "low",
                      detection |-> Dict([selection |->
                                              SelDict(s_User :> Str(s_admin))]),
                      logsource |-> Dict(EmptyDict)])]

FilePool ==
    {f_ssh, f_empty, f_dup, f_noid, f_badyaml, f_scalar, f_nodetection,
     f_notitle, f_badtype, f_readme}

\* file.endswith('.yml') or file.endswith('.yaml')
IsRuleFile(file) == file.ext \in {"yml", "yaml"}

RECURSIVE JoinSlash(_)
\* '/'.join(parts)
JoinSlash(parts) ==
    IF Len(parts) = 0 THEN ""
    ELSE IF Len(parts) = 1 THEN parts[1]
    ELSE parts[1] \o "/" \o JoinSlash(Tail(parts))

\* get_rule_category: the slash-joined directory, "uncategorized" at the root.
get_rule_category(file) ==
    LET category_path == JoinSlash(file.dir)
    IN IF category_path # "" THEN category_path ELSE "uncategorized"

\* Whether Rule(...) accepts the fields (pydantic): detection: Dict[str, Any],
\* logsource: Dict[str, str].
RuleValidates(data) ==
    /\ data.detection.isdict
    /\ Get(data, "logsource", Dict(EmptyDict)).isdict

\* A faulty variant of MakeRule: rule_states.get(rule_id, True).
MakeRule_default_enabled(file, data, states) ==
    LET rule_id == Get(data, "id", file.stem)
    IN [id |-> rule_id,
        title |-> data.title,
        level |-> Get(data, "level", "medium"),
        detection |-> data.detection.d,
        logsource |-> Get(data, "logsource", Dict(EmptyDict)).d,
        enabled |-> Get(states, rule_id, TRUE),
        category |-> get_rule_category(file)]

\* The Rule that lines 245-260 build from a valid document.
MakeRule(file, data, states) ==
    LET rule_id == Get(data, "id", file.stem)
    IN [id |-> rule_id,
        title |-> data.title,
        level |-> Get(data, "level", "medium"),
        detection |-> data.detection.d,
        logsource |-> Get(data, "logsource", Dict(EmptyDict)).d,
        enabled |-> Get(states, rule_id, FALSE),
        category |-> get_rule_category(file)]

\* One iteration of the walk (lines 232-268): the rules the file adds.
LoadFile(file, states) ==
    IF ~IsRuleFile(file) THEN <<>>
    ELSE IF file.doc.kind = "error" THEN <<>>
    ELSE IF file.doc.kind # "map" THEN <<>>
    ELSE IF "detection" \notin DOMAIN file.doc.data
            \/ "title" \notin DOMAIN file.doc.data THEN <<>>
    ELSE IF ~RuleValidates(file.doc.data) THEN <<>>
    ELSE << MakeRule(file, file.doc.data, states) >>

RECURSIVE Walk_stops_at_bad_file(_, _)
\* A faulty variant of Walk: the per-file try/except is missing, so the first
\* file that cannot be loaded ends the walk.
Walk_stops_at_bad_file(files, states) ==
    IF files = <<>> THEN <<>>
    ELSE IF IsRuleFile(Head(files)) /\ LoadFile(Head(files), states) = <<>>
    THEN <<>>
    ELSE LoadFile(Head(files), states)
         \o Walk_stops_at_bad_file(Tail(files), states)

RECURSIVE Walk(_, _)
\* The rules appended by walking `files` in order.
Walk(files, states) ==
    IF files = <<>> THEN <<>>
    ELSE LoadFile(Head(files), states) \o Walk(Tail(files), states)

\* setup_rules_directory: /app/rules and /app/rules/rules exist and hold at
\* least one .yml/.yaml file.
setup_rules_directory(d) ==
    /\ d.root
    /\ d.sub
    /\ \E i \in 1..Len(d.files) : IsRuleFile(d.files[i])

\* len([r for r in rules if r.enabled])
CountEnabled(rules) == Cardinality({i \in 1..Len(rules) : rules[i].enabled})

----------------------------------------------------------------------------
(* Log events.  An event is a record with any of the keys of EventKeys:    *)
(* source is Str(text) or JNull; id is a number; format, category_name,    *)
(* activity_name and class_name are text; metadata, log_metadata and       *)
(* raw_event are dicts of text -> text.                                    *)

\* JSON null.
JNull == [t |-> "null", s |-> <<>>]

\* The keys an event may carry, in the order the request lists them.
EventKeys ==
    <<"id", "source", "format", "category_name", "activity_name",
      "class_name", "metadata", "log_metadata", "raw_event">>

\* The text of each key.
KeyText ==
    ("id" :> <<105, 100>>) @@
    ("source" :> <<115, 111, 117, 114, 99, 101>>) @@
    ("format" :> <<102, 111, 114, 109, 97, 116>>) @@
    ("category_name" :> <<99, 97, 116, 101, 103, 111, 114, 121, 95, 110, 97, 109, 101>>) @@
    ("activity_name" :> <<97, 99, 116, 105, 118, 105, 116, 121, 95, 110, 97, 109, 101>>) @@
    ("class_name" :> <<99, 108, 97, 115, 115, 95, 110, 97, 109, 101>>) @@
    ("metadata" :> <<109, 101, 116, 97, 100, 97, 116, 97>>) @@
    ("log_metadata" :> <<108, 111, 103, 95, 109, 101, 116, 97, 100, 97, 116, 97>>) @@
    ("raw_event" :> <<114, 97, 119, 95, 101, 118, 101, 110, 116>>)

\* A total order on text, to list a dict's keys in one fixed order.
LexLess(a, b) ==
    \E i \in 1..(Len(a) + 1) :
        /\ \A j \in 1..(i - 1) : j <= Len(b) /\ a[j] = b[j]
        /\ i <= Len(b)
        /\ (i > Len(a) \/ a[i] < b[i])

RECURSIVE SortedKeys(_)
SortedKeys(S) ==
    IF S = {} THEN <<>>
    ELSE LET m == CHOOSE x \in S : \A y \in S \ {x} : LexLess(x, y)
         IN <<m>> \o SortedKeys(S \ {m})

RECURSIVE JoinComma(_)
\* ', '.join(items)
JoinComma(items) ==
    IF Len(items) = 0 THEN <<>>
    ELSE IF Len(items) = 1 THEN items[1]
    ELSE items[1] \o <<44, 32>> \o JoinComma(Tail(items))

\* json.dumps of a text: "text"
DumpsText(s) == <<34>> \o s \o <<34>>

\* json.dumps of a dict of text -> text: {"k": "v", ...}
DumpsTextDict(d) ==
    LET ks == SortedKeys(DOMAIN d)
    IN <<123>>
       \o JoinComma([i \in 1..Len(ks) |->
              DumpsText(ks[i]) \o <<58, 32>> \o DumpsText(d[ks[i]])])
       \o <<125>>

\* json.dumps of the value of a top-level key.
DumpsField(k, v) ==
    IF k = "id" THEN (IF v < 10 THEN <<48 + v>>
                      ELSE <<48 + (v \div 10), 48 + (v % 10)>>)
    ELSE IF k = "source" THEN (IF v.t = "str" THEN DumpsText(v.s)
                               ELSE <<110, 117, 108, 108>>)
    ELSE IF k \in {"metadata", "log_metadata", "raw_event"} THEN DumpsTextDict(v)
    ELSE DumpsText(v)

\* The "key": value items of the top-level keys of an event.
TopItems(e) ==
    LET present == SelectSeq(EventKeys, LAMBDA k : k \in DOMAIN e)
    IN [i \in 1..Len(present) |->
           DumpsText(KeyText[present[i]]) \o <<58, 32>>
           \o DumpsField(present[i], e[present[i]])]

\* json.dumps(log_entry)
json_dumps(e) == <<123>> \o JoinComma(TopItems(e)) \o <<125>>

\* json.dumps({**raw_event, **log_entry}): the keys of raw_event first (a key
\* the event also has at top level keeps its place and takes the event's
\* value), then the event's other keys.
json_dumps_combined(e) ==
    LET raw == Get(e, "raw_event", EmptyDict)
        shadowed == {KeyText[k] : k \in DOMAIN e}
        ks == SortedKeys(DOMAIN raw)
        top == TopItems(e)
        present == SelectSeq(EventKeys, LAMBDA k : k \in DOMAIN e)
        rawItems ==
            [i \in 1..Len(ks) |->
                IF ks[i] \in shadowed
                THEN LET k == CHOOSE k \in DOMAIN e : KeyText[k] = ks[i]
                     IN DumpsText(ks[i]) \o <<58, 32>> \o DumpsField(k, e[k])
                ELSE DumpsText(ks[i]) \o <<58, 32>> \o DumpsText(raw[ks[i]])]
        rest == SelectSeq([i \in 1..Len(present) |->
                              [k |-> present[i], item |-> top[i]]],
                          LAMBDA x : KeyText[x.k] \notin DOMAIN raw)
    IN <<123>>
       \o JoinComma(rawItems \o [i \in 1..Len(rest) |-> rest[i].item])
       \o <<125>>

----------------------------------------------------------------------------
(* The matchers.                                                           *)

\* A faulty variant of FieldPasses: field|contains compares for equality.
FieldPasses_contains_as_equality(field, values, data) ==
    LET name == IF Contains(s_contains_mod, field) THEN BeforeBar(field)
                ELSE field
        field_value == Lower(Get(data, name, s_empty))
    IN IF values.t = "list"
       THEN \E i \in 1..Len(values.l) : field_value = Lower(values.l[i])
       ELSE field_value = Lower(values.s)

\* A faulty variant of FieldPasses: the exact comparison takes the metadata
\* value as it is, without .lower().
FieldPasses_exact_case_sensitive(field, values, data) ==
    IF Contains(s_contains_mod, field)
    THEN LET field_value == Lower(Get(data, BeforeBar(field), s_empty))
         IN IF values.t = "list"
            THEN \E i \in 1..Len(values.l) : Contains(Lower(values.l[i]), field_value)
            ELSE Contains(Lower(values.s), field_value)
    ELSE LET field_value == Get(data, field, s_empty)
         IN IF values.t = "list"
            THEN \E i \in 1..Len(values.l) : field_value = Lower(values.l[i])
            ELSE field_value = Lower(values.s)

\* One field of a selection against the dict `data` (lines 321-338 and the
\* same lines of check_detection_conditions, 599-616).
FieldPasses(field, values, data) ==
    IF Contains(s_contains_mod, field)
    THEN LET actual_field == BeforeBar(field)
             field_value == Lower(Get(data, actual_field, s_empty))
         IN IF values.t = "list"
            THEN \E i \in 1..Len(values.l) : Contains(Lower(values.l[i]), field_value)
            ELSE Contains(Lower(values.s), field_value)
    ELSE LET field_value == Lower(Get(data, field, s_empty))
         IN IF values.t = "list"
            THEN \E i \in 1..Len(values.l) : field_value = Lower(values.l[i])
            ELSE field_value = Lower(values.s)

\* A faulty variant of SelectionMatches: one passing field is enough (OR).
SelectionMatches_any_field(fields, data) ==
    \E field \in DOMAIN fields : FieldPasses(field, fields[field], data)

\* The loop over selection.items() with its final `return True`.
SelectionMatches(fields, data) ==
    \A field \in DOMAIN fields : FieldPasses(field, fields[field], data)

\* A faulty variant of KeywordsMatch: every keyword of a list must be in the
\* text (AND).
KeywordsMatch_all(keywords, log_str) ==
    IF keywords.t = "list"
    THEN \A i \in 1..Len(keywords.l) : Contains(Lower(keywords.l[i]), log_str)
    ELSE Contains(Lower(keywords.s), log_str)

\* The keywords branch: any keyword, or the single string, in the text.
KeywordsMatch(keywords, log_str) ==
    IF keywords.t = "list"
    THEN \E i \in 1..Len(keywords.l) : Contains(Lower(keywords.l[i]), log_str)
    ELSE Contains(Lower(keywords.s), log_str)

\* Line 292: `log_entry.get('source', '').lower()` raises when the rule has a
\* logsource and the event's source is not a text.
match_rule_raises(rule, log_entry) ==
    /\ rule.logsource # EmptyDict
    /\ Get(log_entry, "source", Str(s_empty)).t # "str"

\* A faulty variant of logsource_rejects: only the event's source is
\* compared, the metadata's product and category are not.
logsource_rejects_source_only(rule, log_entry) ==
    LET logsource == rule.logsource
        src == Get(log_entry, "source", Str(s_empty))
        product == Get(logsource, s_product, s_empty)
        service == Get(logsource, s_service, s_empty)
    IN /\ logsource # EmptyDict
       /\ \/ product # s_empty /\ ~Contains(Lower(product), Lower(src.s))
          \/ service # s_empty /\ ~Contains(Lower(service), Lower(src.s))

\* Lines 290-311: the `return False` statements ahead of the detection, for
\* an event whose source is a text.
logsource_rejects(rule, log_entry) ==
    LET logsource == rule.logsource
        src == Get(log_entry, "source", Str(s_empty))
        product == Get(logsource, s_product, s_empty)
        service == Get(logsource, s_service, s_empty)
        category == Get(logsource, s_category, s_empty)
        md == Get(log_entry, "metadata", EmptyDict)
        metadata == IF md # EmptyDict THEN md
                    ELSE Get(log_entry, "log_metadata", EmptyDict)
    IN \/ /\ logsource # EmptyDict
          /\ \/ product # s_empty /\ ~Contains(Lower(product), Lower(src.s))
             \/ service # s_empty /\ ~Contains(Lower(service), Lower(src.s))
       \/ /\ s_product \in DOMAIN metadata
          /\ product # s_empty
          /\ Lower(metadata[s_product]) # Lower(product)
       \/ /\ s_category \in DOMAIN metadata
          /\ category # s_empty
          /\ Lower(metadata[s_category]) # Lower(category)

\* match_rule.  `source.lower()` raises on a null source; the except clause
\* turns that into False.
match_rule(rule, log_entry) ==
    LET md == Get(log_entry, "metadata", EmptyDict)
        metadata == IF md # EmptyDict THEN md
                    ELSE Get(log_entry, "log_metadata", EmptyDict)
        detection == rule.detection
    IN IF match_rule_raises(rule, log_entry) THEN FALSE
       ELSE IF logsource_rejects(rule, log_entry) THEN FALSE
       ELSE IF "selection" \in DOMAIN detection
            THEN IF ~detection.selection.isdict THEN FALSE
                 ELSE SelectionMatches(detection.selection.fields, metadata)
       ELSE IF "keywords" \in DOMAIN detection
            THEN KeywordsMatch(detection.keywords, Lower(json_dumps(log_entry)))
       ELSE FALSE

\* Lines 375-399: the rule converted by OCSFBackend and each query run through
\* eval_ocsf_query.  eval_ocsf_query rewrites the query text (" == " becomes
\* "', '') == " whether or not a "data." opened the call) and evaluates it
\* with eval; for the field names of the rules modelled here the rewritten
\* text is no Python expression, eval raises and the result is False.
eval_ocsf_query(rule, combined_text) == FALSE

\* basic_ocsf_match: a selection that is not a dict is no match; the nested
\* function that checks the selection is defined and never called; only the
\* keywords branch decides.
basic_ocsf_match(rule, combined_text) ==
    IF "selection" \in DOMAIN rule.detection
       /\ ~rule.detection.selection.isdict
    THEN FALSE
    ELSE IF "keywords" \in DOMAIN rule.detection
    THEN KeywordsMatch(rule.detection.keywords, Lower(combined_text))
    ELSE FALSE

\* match_ocsf_rule: both ways out of the pySigma stage end in
\* basic_ocsf_match; the category table and check_detection_conditions after
\* them are never reached.
match_ocsf_rule(rule, log_entry) ==
    LET combined_text == json_dumps_combined(log_entry)
    IN IF eval_ocsf_query(rule, combined_text) THEN TRUE
       ELSE basic_ocsf_match(rule, combined_text)

\* A faulty variant of INTERNAL_SERVICES: 'api' is missing from the set.
INTERNAL_SERVICES_without_api ==
    {s_collector, s_detection, s_iplookup, s_frontend, s_detections_page}

\* INTERNAL_SERVICES
INTERNAL_SERVICES ==
    {s_api, s_collector, s_detection, s_iplookup, s_frontend, s_detections_page}

\* is_ocsf = log_entry.get('format') == 'ocsf' or 'category_name' in log_entry
IsOcsf(log_entry) ==
    \/ Get(log_entry, "format", s_empty) = s_ocsf
    \/ "category_name" \in DOMAIN log_entry

\* The matcher /analyze uses for the event's shape.
Matches(rule, log_entry) ==
    IF IsOcsf(log_entry) THEN match_ocsf_rule(rule, log_entry)
    ELSE match_rule(rule, log_entry)

\* Lines 654-668: the first enabled rule, in list order, whose matcher
\* returns True; 0 when there is none.
RECURSIVE FirstMatchFrom(_, _, _)
FirstMatchFrom(rules, log_entry, i) ==
    IF i > Len(rules) THEN 0
    ELSE IF ~rules[i].enabled THEN FirstMatchFrom(rules, log_entry, i + 1)
    ELSE IF Matches(rules[i], log_entry) THEN i
    ELSE FirstMatchFrom(rules, log_entry, i + 1)

\* A faulty variant of FirstMatch: the loop has no `break`, so the last
\* enabled matching rule is the one kept.
FirstMatch_no_break(rules, log_entry) ==
    LET hits == {i \in 1..Len(rules) :
                    rules[i].enabled /\ Matches(rules[i], log_entry)}
    IN IF hits = {} THEN 0 ELSE CHOOSE i \in hits : \A j \in hits : j <= i

FirstMatch(rules, log_entry) == FirstMatchFrom(rules, log_entry, 1)

----------------------------------------------------------------------------
(* The events the model sends to /analyze.                                 *)

\* The spec's scenario: legacy, source auth, product openssh-failed.
ev_ssh ==
    [id |-> 1, source |-> Str(s_auth),
     metadata |-> (s_product :> s_openssh_failed)]
\* Legacy, product apache.
ev_apache ==
    [id |-> 2, source |-> Str(s_auth), metadata |-> (s_product :> s_apache)]
\* Legacy, from an internal service; the id of ev_apache.
ev_api ==
    [id |-> 2, source |-> Str(s_api),
     metadata |-> (s_product :> s_openssh_failed)]
\* Legacy, log_metadata instead of metadata, upper-case values.
ev_admin ==
    [id |-> 3, source |-> Str(s_auth),
     log_metadata |-> (s_user :> s_ADMIN) @@ (s_category :> s_Authentication)]
\* OCSF (format and category_name), an internal source, the id of ev_ssh.
ev_ocsf ==
    [id |-> 1, source |-> Str(s_api), format |-> s_ocsf,
     category_name |-> s_Authentication, activity_name |-> s_Logon,
     raw_event |-> (s_product :> s_openssh_failed)]
\* Legacy, no id, "source": null.
ev_null == [source |-> JNull, metadata |-> (s_product :> s_openssh_failed)]

\* Legacy, user in lower case, category in lower case.
ev_admin_lower ==
    [id |-> 4, source |-> Str(s_auth),
     metadata |-> (s_user :> s_admin) @@ (s_category :> s_authentication)]
\* Legacy, another user.
ev_sshd ==
    [id |-> 5, source |-> Str(s_auth), metadata |-> (s_user :> s_sshd)]
\* Legacy, product in mixed case.
ev_ssh_upper ==
    [id |-> 6, source |-> Str(s_auth), metadata |-> (s_product :> s_OpenSSH)]
\* OCSF, a category that is no synonym of authentication.
ev_ocsf_net ==
    [id |-> 7, source |-> Str(s_auth), category_name |-> s_Network_Activity,
     activity_name |-> s_Traffic, raw_event |-> (s_product :> s_apache)]
\* Legacy, a user and a product.
ev_both ==
    [id |-> 8, source |-> Str(s_auth),
     metadata |-> (s_user :> s_Admin) @@ (s_product :> s_openssh_failed)]
\* Legacy, from the source Apache, product and category given.
ev_web ==
    [id |-> 9, source |-> Str(s_Apache),
     metadata |-> (s_product :> s_apache) @@ (s_category :> s_authentication)]
\* The same with another category.
ev_web_cat ==
    [id |-> 10, source |-> Str(s_apache),
     metadata |-> (s_product :> s_apache) @@ (s_category :> s_Logon)]
\* The same with another product.
ev_web_prod ==
    [id |-> 11, source |-> Str(s_apache),
     metadata |-> (s_product :> s_openssh_failed)
                  @@ (s_category :> s_authentication)]
\* From the source apache, neither product nor category in the metadata.
ev_web_bare ==
    [id |-> 12, source |-> Str(s_apache), metadata |-> (s_user :> s_sshd)]
\* Legacy, the metadata key starts with a capital.
ev_User ==
    [id |-> 13, source |-> Str(s_auth), metadata |-> (s_User :> s_admin)]

Events ==
    <<ev_ssh, ev_apache, ev_api, ev_admin, ev_ocsf, ev_null,
      ev_admin_lower, ev_sshd, ev_ssh_upper, ev_ocsf_net,
      ev_both, ev_web, ev_web_cat, ev_web_prod, ev_web_bare, ev_User>>

\* The events (indices in Events) each specification sends.
AnalyzeEvents == {e \in 1..Len(Events) : Events[e] \in
                     {ev_ssh, ev_apache, ev_api, ev_admin, ev_ocsf, ev_null}}
MatchEvents == {e \in 1..Len(Events) : Events[e] \in
                   {ev_ssh, ev_apache, ev_admin, ev_ocsf, ev_admin_lower,
                    ev_sshd, ev_ssh_upper, ev_ocsf_net}}

----------------------------------------------------------------------------
(* State.                                                                  *)

VARIABLES
    pc,           \* where startup_event is: "fetch", "load" or "running"
    attempt,      \* load_rules: the loop variable `attempt` (at its last
                  \* value once load_rules has returned)
    rules,        \* load_rules: the local list `rules`
    disk,         \* /app/rules: [root, sub, files]
    store,        \* the rule states the API service holds
    inflight,     \* the periodic refresh: the fetched answer it is about to apply
    sigma_rules,  \* the global sigma_rules
    rule_states,  \* the global rule_states
    stats,        \* the global stats
    resp,         \* the last answer of /analyze or /rules/toggle
    now,          \* the clock, in hours
    walk_errors,  \* "Error loading rules (attempt n)" lines logged so far
    fetch_log,    \* startup's calls of get_rule_states_from_api: TRUE for
                  \* each that got the store's answer, FALSE for each failure
    accepted_ids  \* the ids appended to processed_log_ids so far, in order

vars ==
    <<pc, attempt, rules, disk, store, inflight, sigma_rules, rule_states,
      stats, resp, now, walk_errors, fetch_log, accepted_ids>>

\* The rule ids the API service holds a state for, and those toggled.
StoreIds == {"r1", "r2"}
ToggleIds == {"r1", "r2", "zz"}

\* The corpora of the full specification, in walk order.
Corpora ==
    {<<f_ssh, f_badyaml, f_empty>>, <<f_empty, f_ssh>>, <<f_dup, f_ssh>>}

\* Every corpus of at most MaxFiles files.
RECURSIVE SeqsUpTo(_, _)
SeqsUpTo(S, n) ==
    IF n = 0 THEN {<<>>}
    ELSE LET shorter == SeqsUpTo(S, n - 1)
         IN shorter \cup {Append(s, x) : s \in shorter, x \in S}

AllCorpora == SeqsUpTo(FilePool, MaxFiles)

\* The refresh task between two fetches.
Idle == [busy |-> FALSE, api_states |-> EmptyDict]

\* Lines 51-63.
InitStats ==
    [enabled_rules |-> 0, total_rules |-> 0, alerts_last_24h |-> 0,
     processing_rate |-> 0, status |-> "starting", processed_logs |-> 0,
     last_minute_logs |-> <<>>, alerts |-> <<>>, rules_loaded |-> FALSE,
     processed_log_ids |-> <<>>]

\* An answer: the handler, the HTTP status, the alerts array, which return
\* statement produced it, and the request (the event's index in Events, or
\* the rule_id and enabled of a toggle).
Resp(op, code, alerts, why, event, rule_id, enabled) ==
    [op |-> op, code |-> code, alerts |-> alerts, why |-> why,
     event |-> event, rule_id |-> rule_id, enabled |-> enabled]

NoResp == Resp("none", 0, <<>>, "", 0, "", FALSE)

\* The state when startup_event has set the status and slept: the disk is
\* provisioned with corpus, or not yet.
InitWith(corpora, stores) ==
    /\ pc = "fetch"
    /\ attempt = 0
    /\ rules = <<>>
    /\ disk \in {[root |-> TRUE, sub |-> TRUE, files |-> c] : c \in corpora}
                \cup {[root |-> FALSE, sub |-> FALSE, files |-> <<>>],
                      [root |-> TRUE, sub |-> FALSE, files |-> <<>>]}
    /\ store \in stores
    /\ inflight = Idle
    /\ sigma_rules = <<>>
    /\ rule_states = EmptyDict
    /\ stats = InitStats
    /\ resp = NoResp
    /\ now = 0
    /\ walk_errors = 0
    /\ fetch_log = <<>>
    /\ accepted_ids = <<>>

\* The corpora and the store of the matcher's specification.
MatchCorpora ==
    {<<f_ssh>>, <<f_ssh_list, f_ssh>>, <<f_noid, f_user_upper>>,
     <<f_kw_auth, f_ssh>>}
MatchStore == [id \in {"r1", "r3", "r4", "r5", "r6"} |-> TRUE]

\* The corpora, the store and the events of the specification of the legacy
\* matcher's selection, keywords and logsource filter.
SelCorpora ==
    {<<f_two>>, <<f_ls_service>>, <<f_ls_product>>, <<f_sel_kw>>,
     <<f_kw_list>>, <<f_User>>, <<f_noid, f_two>>}
SelStore ==
    [id \in {"r3", "r7", "r8", "r9", "r10", "r11", "r12"} |-> TRUE]
SelEvents == {e \in 1..Len(Events) : Events[e] \in
                 {ev_ssh, ev_apache, ev_admin_lower, ev_sshd, ev_both, ev_web,
                  ev_web_cat, ev_web_prod, ev_web_bare, ev_User}}

\* The engine on a provisioned disk.
Init ==
    /\ InitWith(Corpora,
                {EmptyDict, ("r1" :> TRUE), ("r1" :> TRUE) @@ ("r2" :> TRUE)})
    /\ setup_rules_directory(disk)

InitLoad ==
    InitWith(AllCorpora,
             {EmptyDict, ("r1" :> TRUE) @@ ("r2" :> FALSE),
              ("r2" :> TRUE) @@ ("r3" :> TRUE)})

----------------------------------------------------------------------------
(* Startup: startup_event and load_rules.                                  *)

\* Lines 815-830.  get_rule_states_from_api catches every error and returns
\* {}, so the first pass through the retry loop always reaches `break`.
StartupFetch ==
    /\ pc = "fetch"
    /\ \E ok \in BOOLEAN :
          LET api_states == IF ok THEN store ELSE EmptyDict
          IN /\ rule_states' = IF api_states # EmptyDict
                               THEN Update(rule_states, api_states)
                               ELSE rule_states
             /\ fetch_log' = Append(fetch_log, ok)
    /\ pc' = "load"
    /\ UNCHANGED <<attempt, rules, disk, store, inflight, sigma_rules, stats,
                   resp, now, walk_errors, accepted_ids>>

\* The provisioning script fills the rules directory while startup waits.
Provision(corpora) ==
    /\ pc # "running"
    /\ ~setup_rules_directory(disk)
    /\ \E c \in corpora : disk' = [root |-> TRUE, sub |-> TRUE, files |-> c]
    /\ UNCHANGED <<pc, attempt, rules, store, inflight, sigma_rules,
                   rule_states, stats, resp, now, walk_errors,
                   fetch_log, accepted_ids>>

\* Lines 834-846: load_rules has returned `returned` with the stats `st`.
FinishStartup(returned, st) ==
    /\ sigma_rules' = returned
    /\ stats' = [st EXCEPT !.status = IF returned # <<>> THEN "operational"
                                      ELSE "degraded"]
    /\ pc' = "running"
    /\ rules' = <<>>
    /\ attempt' = attempt

\* A faulty variant of RetryOrGiveUp: the last attempt is not made.
RetryOrGiveUp_two_attempts(partial) ==
    IF attempt < load_max_retries - 2
    THEN /\ attempt' = attempt + 1
         /\ rules' = partial
         /\ UNCHANGED <<pc, sigma_rules, stats>>
    ELSE FinishStartup(partial, [stats EXCEPT !.status = "degraded"])

\* A faulty variant of RetryOrGiveUp: a failed attempt is always retried, the
\* number of attempts is not bounded.
RetryOrGiveUp_unbounded(partial) ==
    /\ attempt' = attempt
    /\ rules' = partial
    /\ UNCHANGED <<pc, sigma_rules, stats>>

\* What an attempt that failed does next (lines 216-222 and 280-284).
RetryOrGiveUp(partial) ==
    IF attempt < load_max_retries - 1
    THEN /\ attempt' = attempt + 1
         /\ rules' = partial
         /\ UNCHANGED <<pc, sigma_rules, stats>>
    ELSE FinishStartup(partial, [stats EXCEPT !.status = "degraded"])

\* An attempt of load_rules whose setup_rules_directory() is False.
LoadVerifyFails ==
    /\ pc = "load"
    /\ ~setup_rules_directory(disk)
    /\ RetryOrGiveUp(rules)
    /\ UNCHANGED <<disk, store, inflight, rule_states, resp, now, walk_errors,
                   fetch_log, accepted_ids>>

\* An attempt whose walk completes (lines 224-276).
LoadWalk ==
    /\ pc = "load"
    /\ setup_rules_directory(disk)
    /\ LET loaded == rules \o Walk(disk.files, rule_states)
       IN FinishStartup(loaded,
              [stats EXCEPT !.total_rules = Len(loaded),
                            !.enabled_rules = CountEnabled(loaded),
                            !.rules_loaded = TRUE,
                            !.status = "operational"])
    /\ UNCHANGED <<disk, store, inflight, rule_states, resp, now, walk_errors,
                   fetch_log, accepted_ids>>

\* An attempt whose walk raises outside the per-file try, after k files
\* (the handler of line 278).
LoadWalkRaises ==
    /\ pc = "load"
    /\ setup_rules_directory(disk)
    /\ \E k \in 0..Len(disk.files) :
          RetryOrGiveUp(rules \o Walk(SubSeq(disk.files, 1, k), rule_states))
    /\ walk_errors' = walk_errors + 1
    /\ UNCHANGED <<disk, store, inflight, rule_states, resp, now, fetch_log, accepted_ids>>

----------------------------------------------------------------------------
(* Request handlers and the refresh task.                                  *)

\* A faulty variant of DequeAppend: a full deque keeps what it holds and
\* drops the new item.
DequeAppend_drops_newest(q, x, cap) ==
    IF Len(q) >= cap THEN q ELSE Append(q, x)

\* collections.deque(maxlen=cap).append(x)
DequeAppend(q, x, cap) ==
    LET appended == Append(q, x)
    IN IF Len(appended) > cap THEN Tail(appended) ELSE appended

\* update_processing_stats, on stats `st` at time t (hours).
update_processing_stats(st, t) ==
    LET samples == DequeAppend(st.last_minute_logs,
                               <<t * SecondsPerHour, st.processed_logs>>, RateCap)
        oldest == samples[1]
        newest == samples[Len(samples)]
        time_diff == newest[1] - oldest[1]
    IN [st EXCEPT !.last_minute_logs = samples,
                  !.processing_rate =
                      IF Len(samples) > 1 /\ time_diff > 0
                      THEN (newest[2] - oldest[2]) \div time_diff
                      ELSE st.processing_rate]

RECURSIVE DropOlder(_, _)
\* while alerts and alerts[0] < cutoff_time: alerts.popleft()
DropOlder(alerts, cutoff_time) ==
    IF alerts # <<>> /\ Head(alerts) < cutoff_time
    THEN DropOlder(Tail(alerts), cutoff_time)
    ELSE alerts

\* update_alert_stats(new_alert), on stats `st` at time t.
update_alert_stats(st, t, new_alert) ==
    LET appended == IF new_alert THEN DequeAppend(st.alerts, t, AlertsCap)
                    ELSE st.alerts
        pruned == DropOlder(appended, t - WindowHours)
    IN [st EXCEPT !.alerts = pruned, !.alerts_last_24h = Len(pruned)]

\* The Alert of lines 674-681 (timestamp and matched_log left out).
MakeAlert(rule, log_entry) ==
    [rule_id |-> rule.id,
     rule_name |-> rule.title,
     log_source |-> IF IsOcsf(log_entry)
                    THEN Get(log_entry, "category_name", s_unknown)
                    ELSE Get(log_entry, "source", Str(s_unknown)).s,
     severity |-> rule.level]

\* Whether Alert(...) raises a ValidationError: log_source is not a str.
AlertRaises(log_entry) ==
    /\ ~IsOcsf(log_entry)
    /\ Get(log_entry, "source", Str(s_unknown)).t # "str"

\* Line 639: a standard log whose source is an internal service.
IsInternal(log_entry) ==
    /\ ~IsOcsf(log_entry)
    /\ "source" \in DOMAIN log_entry
    /\ log_entry.source.t = "str"
    /\ log_entry.source.s \in INTERNAL_SERVICES

\* A faulty variant of IsDuplicate: the check is made for standard logs only,
\* like the internal-service filter above it.
IsDuplicate_standard_only(ring, log_entry) ==
    /\ ~IsOcsf(log_entry)
    /\ "id" \in DOMAIN log_entry
    /\ \E i \in 1..Len(ring) : ring[i] = log_entry.id

\* Lines 643-645: the event has an id and the id is in processed_log_ids.
IsDuplicate(ring, log_entry) ==
    /\ "id" \in DOMAIN log_entry
    /\ \E i \in 1..Len(ring) : ring[i] = log_entry.id

\* A faulty variant of count_log: the id is remembered but the call is not
\* counted.
count_log_ring_only(st, log_entry) ==
    [st EXCEPT !.processed_log_ids =
                   IF "id" \in DOMAIN log_entry
                   THEN DequeAppend(st.processed_log_ids, log_entry.id, DedupCap)
                   ELSE st.processed_log_ids]

\* Lines 648-650: the id, when there is one, goes into processed_log_ids and
\* processed_logs is incremented.
count_log(st, log_entry) ==
    [st EXCEPT !.processed_log_ids =
                   IF "id" \in DOMAIN log_entry
                   THEN DequeAppend(st.processed_log_ids, log_entry.id, DedupCap)
                   ELSE st.processed_log_ids,
               !.processed_logs = st.processed_logs + 1]

\* POST /analyze with Events[e].
AnalyzeUpTo(e, max_logs) ==
    LET log_entry == Events[e]
        internal == IsInternal(log_entry)
        has_id == "id" \in DOMAIN log_entry
        ring == stats.processed_log_ids
        duplicate == IsDuplicate(ring, log_entry)
        Answer(code, alerts, why) == Resp("analyze", code, alerts, why, e, "", FALSE)
        counted == count_log(stats, log_entry)
        sampled == update_processing_stats(counted, now)
        m == FirstMatch(sigma_rules, log_entry)
    IN /\ pc = "running"
       /\ IF internal
          THEN /\ resp' = Answer(200, <<>>, "internal")
               /\ stats' = stats
               /\ accepted_ids' = accepted_ids
          ELSE IF duplicate
          THEN /\ resp' = Answer(200, <<>>, "duplicate")
               /\ stats' = stats
               /\ accepted_ids' = accepted_ids
          ELSE /\ stats.processed_logs < max_logs
               /\ accepted_ids' = IF has_id
                                  THEN Append(accepted_ids, log_entry.id)
                                  ELSE accepted_ids
               /\ IF m = 0
                  THEN /\ resp' = Answer(200, <<>>, "analysed")
                       /\ stats' = sampled
                  ELSE IF AlertRaises(log_entry)
                  THEN /\ resp' = Answer(500, <<>>, "error")
                       /\ stats' = [sampled EXCEPT !.status = "degraded"]
                  ELSE /\ resp' = Answer(200,
                                          <<MakeAlert(sigma_rules[m], log_entry)>>,
                                          "analysed")
                       /\ stats' = update_alert_stats(sampled, now, TRUE)
       /\ UNCHANGED <<pc, attempt, rules, disk, store, inflight, sigma_rules,
                      rule_states, now, walk_errors, fetch_log>>

\* POST /analyze, for the first MaxLogs events that are analysed.
Analyze(e) == AnalyzeUpTo(e, MaxLogs)

\* A faulty variant of SetFirst: the rule that gets the flag is moved to the
\* head of the list.
SetFirst_moves_to_head(rs, rule_id, enabled) ==
    LET hits == {i \in 1..Len(rs) : rs[i].id = rule_id}
    IN IF hits = {} THEN rs
       ELSE LET first == CHOOSE i \in hits : \A j \in hits : i <= j
            IN <<[rs[first] EXCEPT !.enabled = enabled]>>
               \o SubSeq(rs, 1, first - 1) \o SubSeq(rs, first + 1, Len(rs))

\* Lines 715-719: the first rule with the id gets the flag.
RECURSIVE SetFirst(_, _, _)
SetFirst(rs, rule_id, enabled) ==
    IF rs = <<>> THEN <<>>
    ELSE IF Head(rs).id = rule_id
    THEN <<[Head(rs) EXCEPT !.enabled = enabled]>> \o Tail(rs)
    ELSE <<Head(rs)>> \o SetFirst(Tail(rs), rule_id, enabled)

\* POST /rules/toggle.  The HTTPException(404) is raised inside the try and
\* caught by `except Exception`, which answers 500 and sets the status.
Toggle(rule_id, enabled) ==
    LET rule_found == \E i \in 1..Len(sigma_rules) : sigma_rules[i].id = rule_id
        patched == SetFirst(sigma_rules, rule_id, enabled)
    IN /\ pc = "running"
       /\ rule_states' = Update(rule_states, rule_id :> enabled)
       /\ IF rule_found
          THEN /\ sigma_rules' = patched
               /\ stats' = [stats EXCEPT !.enabled_rules = CountEnabled(patched)]
               /\ resp' = Resp("toggle", 200, <<>>, "success", 0, rule_id, enabled)
          ELSE /\ sigma_rules' = sigma_rules
               /\ stats' = [stats EXCEPT !.status = "degraded"]
               /\ resp' = Resp("toggle", 500, <<>>, "error", 0, rule_id, enabled)
       /\ UNCHANGED <<pc, attempt, rules, disk, store, inflight, now,
                      walk_errors,
                   fetch_log, accepted_ids>>

\* The refresh task wakes and awaits get_rule_states_from_api(): the answer
\* is the store's map as it is now, or {} when the call fails.
RefreshFetch ==
    /\ pc = "running"
    /\ ~inflight.busy
    /\ \E ok \in BOOLEAN :
          inflight' = [busy |-> TRUE,
                       api_states |-> IF ok THEN store ELSE EmptyDict]
    /\ UNCHANGED <<pc, attempt, rules, disk, store, sigma_rules, rule_states,
                   stats, resp, now, walk_errors, fetch_log, accepted_ids>>

\* A faulty variant of RefreshApply: the answer goes into rule_states and
\* the loaded rules are not patched.
RefreshApply_states_only ==
    /\ pc = "running"
    /\ inflight.busy
    /\ inflight' = Idle
    /\ rule_states' = IF inflight.api_states # EmptyDict
                      THEN Update(rule_states, inflight.api_states)
                      ELSE rule_states
    /\ UNCHANGED <<pc, attempt, rules, disk, store, sigma_rules, stats, resp,
                   now, walk_errors, fetch_log, accepted_ids>>

\* A faulty variant of RefreshApply: an empty answer marks the engine
\* degraded, as the failures of the request handlers do.
RefreshApply_failure_degrades ==
    LET api_states == inflight.api_states
        patched == [i \in 1..Len(sigma_rules) |->
                       IF sigma_rules[i].id \in DOMAIN api_states
                       THEN [sigma_rules[i] EXCEPT
                                !.enabled = api_states[sigma_rules[i].id]]
                       ELSE sigma_rules[i]]
    IN /\ pc = "running"
       /\ inflight.busy
       /\ inflight' = Idle
       /\ IF api_states # EmptyDict
          THEN /\ rule_states' = Update(rule_states, api_states)
               /\ sigma_rules' = patched
               /\ stats' = [stats EXCEPT !.enabled_rules = CountEnabled(patched)]
          ELSE /\ stats' = [stats EXCEPT !.status = "degraded"]
               /\ UNCHANGED <<rule_states, sigma_rules>>
       /\ UNCHANGED <<pc, attempt, rules, disk, store, resp, now, walk_errors,
                      fetch_log, accepted_ids>>

\* A faulty variant of RefreshApply: the answer replaces the flags, a rule
\* the answer does not name is disabled.
RefreshApply_resets_missing ==
    LET api_states == inflight.api_states
        patched == [i \in 1..Len(sigma_rules) |->
                       [sigma_rules[i] EXCEPT
                           !.enabled = Get(api_states, sigma_rules[i].id, FALSE)]]
    IN /\ pc = "running"
       /\ inflight.busy
       /\ inflight' = Idle
       /\ IF api_states # EmptyDict
          THEN /\ rule_states' = Update(rule_states, api_states)
               /\ sigma_rules' = patched
               /\ stats' = [stats EXCEPT !.enabled_rules = CountEnabled(patched)]
          ELSE UNCHANGED <<rule_states, sigma_rules, stats>>
       /\ UNCHANGED <<pc, attempt, rules, disk, store, resp, now, walk_errors,
                      fetch_log, accepted_ids>>

\* A faulty variant of RefreshApply: the flags are patched, and
\* enabled_rules is left for later (the count is not part of the step).
RefreshApply_count_deferred ==
    LET api_states == inflight.api_states
        patched == [i \in 1..Len(sigma_rules) |->
                       IF sigma_rules[i].id \in DOMAIN api_states
                       THEN [sigma_rules[i] EXCEPT
                                !.enabled = api_states[sigma_rules[i].id]]
                       ELSE sigma_rules[i]]
    IN /\ pc = "running"
       /\ inflight.busy
       /\ inflight' = Idle
       /\ IF api_states # EmptyDict
          THEN /\ rule_states' = Update(rule_states, api_states)
               /\ sigma_rules' = patched
               /\ stats' = stats
          ELSE UNCHANGED <<rule_states, sigma_rules, stats>>
       /\ UNCHANGED <<pc, attempt, rules, disk, store, resp, now, walk_errors,
                      fetch_log, accepted_ids>>

\* Lines 861-877: the task resumes with the answer.
RefreshApply ==
    LET api_states == inflight.api_states
        patched == [i \in 1..Len(sigma_rules) |->
                       IF sigma_rules[i].id \in DOMAIN api_states
                       THEN [sigma_rules[i] EXCEPT
                                !.enabled = api_states[sigma_rules[i].id]]
                       ELSE sigma_rules[i]]
    IN /\ pc = "running"
       /\ inflight.busy
       /\ inflight' = Idle
       /\ IF api_states # EmptyDict
          THEN /\ rule_states' = Update(rule_states, api_states)
               /\ sigma_rules' = patched
               /\ stats' = [stats EXCEPT !.enabled_rules = CountEnabled(patched)]
          ELSE UNCHANGED <<rule_states, sigma_rules, stats>>
       /\ UNCHANGED <<pc, attempt, rules, disk, store, resp, now, walk_errors,
                   fetch_log, accepted_ids>>

\* The API service commits a rule state (src/api/main.py, update_rule_state).
StoreCommit(rule_id, enabled) ==
    /\ pc = "running"
    /\ Get(store, rule_id, ~enabled) # enabled
    /\ store' = Update(store, rule_id :> enabled)
    /\ UNCHANGED <<pc, attempt, rules, disk, inflight, sigma_rules,
                   rule_states, stats, resp, now, walk_errors,
                   fetch_log, accepted_ids>>

\* Time passes.
Tick ==
    /\ pc = "running"
    /\ now + TickHours <= MaxTime
    /\ now' = now + TickHours
    /\ UNCHANGED <<pc, attempt, rules, disk, store, inflight, sigma_rules,
                   rule_states, stats, resp, walk_errors,
                   fetch_log, accepted_ids>>

----------------------------------------------------------------------------
(* What the read-only endpoints answer.                                    *)

\* GET /rules
list_rules ==
    [total |-> Len(sigma_rules),
     rules |-> [i \in 1..Len(sigma_rules) |->
                   [id |-> sigma_rules[i].id, title |-> sigma_rules[i].title,
                    severity |-> sigma_rules[i].level,
                    enabled |-> sigma_rules[i].enabled,
                    category |-> sigma_rules[i].category]]]

\* GET /stats
get_stats ==
    [enabled_rules |-> stats.enabled_rules, total_rules |-> stats.total_rules,
     alerts_last_24h |-> stats.alerts_last_24h,
     processing_rate |-> stats.processing_rate, status |-> stats.status]

\* GET /health
health_check ==
    [status |-> IF ~disk.root THEN "degraded"
                ELSE IF ~stats.rules_loaded THEN "starting"
                ELSE stats.status,
     rules_loaded |-> Len(sigma_rules)]

----------------------------------------------------------------------------
(* Specifications.  The state space of the whole engine is the product of  *)
(* what startup can leave behind, of the analysis pipeline's state (the    *)
(* dedup ring, the rate samples, the alert window, the clock) and of the   *)
(* rule-state machinery (the store, the refresh in flight, rule_states,    *)
(* the flags).  Each specification keeps every handler it needs whole and  *)
(* narrows the environment of the others.                                  *)

\* Startup with every fault the environment can produce.
Startup(corpora) ==
    \/ StartupFetch
    \/ Provision(corpora)
    \/ LoadVerifyFails
    \/ LoadWalk
    \/ LoadWalkRaises

NextLoad == Startup(AllCorpora)

\* Startup alone, over every corpus of at most MaxFiles files.
SpecLoad == InitLoad /\ [][NextLoad]_vars

\* Startup followed by the refresh task it creates (line 849), with the
\* scheduling of the event loop: a coroutine that can go on does go on.
InitStart == InitWith(Corpora, {EmptyDict, ("r1" :> TRUE)})

NextStart ==
    \/ Startup(Corpora)
    \/ RefreshFetch
    \/ RefreshApply

SpecStart ==
    /\ InitStart
    /\ [][NextStart]_vars
    /\ WF_vars(StartupFetch)
    /\ WF_vars(LoadVerifyFails \/ LoadWalk \/ LoadWalkRaises)
    /\ WF_vars(RefreshFetch)
    /\ WF_vars(RefreshApply)

\* The engine once started on a provisioned disk (the walk does not raise),
\* its rule-state machinery and the store; /analyze is sent ev_ssh and the
\* clock stands still.
Next ==
    \/ StartupFetch
    \/ LoadWalk
    \/ Analyze(1)
    \/ \E rule_id \in ToggleIds, enabled \in BOOLEAN : Toggle(rule_id, enabled)
    \/ RefreshFetch
    \/ RefreshApply
    \/ \E rule_id \in StoreIds, enabled \in BOOLEAN : StoreCommit(rule_id, enabled)

Spec == Init /\ [][Next]_vars

\* The analysis pipeline: every event, the clock, and toggles of r1 to vary
\* the flags; the store does not change and no refresh runs.
NextAnalyze ==
    \/ StartupFetch
    \/ LoadWalk
    \/ \E e \in AnalyzeEvents : Analyze(e)
    \/ \E enabled \in BOOLEAN : Toggle("r1", enabled)
    \/ Tick

SpecAnalyze == Init /\ [][NextAnalyze]_vars

\* The dedup ring and the alert window: the engine started on one or two
\* rules, sent events with four different ids (and an internal one), enough
\* of them to push an id out of the ring and send it again, and to raise
\* more alerts than the window holds.
RingEvents == {e \in 1..Len(Events) : Events[e] \in
                  {ev_ssh, ev_apache, ev_api, ev_admin, ev_admin_lower}}

InitRing ==
    /\ InitWith({<<f_ssh>>, <<f_empty, f_ssh>>},
                {("r1" :> TRUE), ("r1" :> TRUE) @@ ("r2" :> TRUE)})
    /\ setup_rules_directory(disk)

NextRing ==
    \/ StartupFetch
    \/ LoadWalk
    \/ \E e \in RingEvents : AnalyzeUpTo(e, MaxRingLogs)

SpecRing == InitRing /\ [][NextRing]_vars

\* The legacy matcher: the engine started on each corpus of SelCorpora with
\* every rule enabled in the store, sent the events of SelEvents.
InitSel == InitWith(SelCorpora, {SelStore}) /\ setup_rules_directory(disk)

NextSel ==
    \/ StartupFetch
    \/ LoadWalk
    \/ \E e \in SelEvents : Analyze(e)

SpecSel == InitSel /\ [][NextSel]_vars

\* The matchers: the engine started on each corpus of MatchCorpora with
\* every rule enabled in the store, sent the events of MatchEvents; toggles
\* of r1 vary the flags.
InitMatch == InitWith(MatchCorpora, {MatchStore}) /\ setup_rules_directory(disk)

NextMatch ==
    \/ StartupFetch
    \/ LoadWalk
    \/ \E e \in MatchEvents : Analyze(e)
    \/ \E enabled \in BOOLEAN : Toggle("r1", enabled)

SpecMatch == InitMatch /\ [][NextMatch]_vars

\* The engine of Spec with its scheduling: startup_event runs to its end,
\* the refresh task's `while True` loop wakes every refresh_interval seconds
\* and its awaited fetch returns.
SpecLive ==
    /\ Spec
    /\ WF_vars(StartupFetch)
    /\ WF_vars(LoadWalk)
    /\ WF_vars(RefreshFetch)
    /\ WF_vars(RefreshApply)

----------------------------------------------------------------------------
(* Properties.                                                             *)

\* A step that is a call of /analyze (a call that changes nothing, such as a
\* repeated duplicate, is a stuttering step).
IsAnalyzeStep ==
    /\ resp'.op = "analyze"
    /\ resp' # resp \/ stats' # stats

\* The rules of `rs` that are enabled and match the event.
Hits(rs, log_entry) ==
    {i \in 1..Len(rs) : rs[i].enabled /\ Matches(rs[i], log_entry)}

\* C1: every /analyze call returns an alerts array of length 0 or 1, and
\* when there is an alert its rule_id is the id of the first rule, in list
\* order, that is enabled at the time of the call and matches the event.
C1_FirstMatchWins ==
    [][IsAnalyzeStep =>
          /\ Len(resp'.alerts) <= 1
          /\ Len(resp'.alerts) = 1 =>
                LET hits == Hits(sigma_rules, Events[resp'.event])
                IN /\ hits # {}
                   /\ \E i \in hits :
                         /\ \A j \in hits : i <= j
                         /\ resp'.alerts[1].rule_id = sigma_rules[i].id]_vars

\* C1, witness: an alert was returned for the first of two enabled rules
\* with different ids that both match the event.
C1_Witness ==
    /\ resp.op = "analyze"
    /\ Len(resp.alerts) = 1
    /\ \E i, j \in Hits(sigma_rules, Events[resp.event]) :
          /\ i < j
          /\ sigma_rules[i].id # sigma_rules[j].id
          /\ resp.alerts[1].rule_id = sigma_rules[i].id

\* C2: when /analyze is called twice in succession with the same id (the same
\* event, or another event with that id after a call that was not dropped as
\* internal telemetry), the second call returns an empty alerts array.
C2_SecondCallEmpty ==
    [][(/\ IsAnalyzeStep
        /\ resp.op = "analyze"
        /\ "id" \in DOMAIN Events[resp.event]
        /\ "id" \in DOMAIN Events[resp'.event]
        /\ Events[resp'.event].id = Events[resp.event].id
        /\ resp'.event = resp.event \/ resp.why # "internal")
       => resp'.alerts = <<>>]_vars

\* C2, witness: a call was answered as a duplicate although an enabled rule
\* matches its event.
C2_Witness ==
    /\ resp.op = "analyze"
    /\ resp.why = "duplicate"
    /\ resp.alerts = <<>>
    /\ Hits(sigma_rules, Events[resp.event]) # {}

\* The names of the internal services, as the claim lists them.
InternalNames ==
    {s_api, s_collector, s_detection, s_iplookup, s_frontend, s_detections_page}

\* C3: a legacy-shaped event (no category_name key, format not 'ocsf') whose
\* source is an internal-service name gets an empty alerts array, whatever
\* rules are loaded and enabled.
C3_InternalNeverAlerts ==
    (/\ resp.op = "analyze"
     /\ "category_name" \notin DOMAIN Events[resp.event]
     /\ Get(Events[resp.event], "format", s_empty) # s_ocsf
     /\ "source" \in DOMAIN Events[resp.event]
     /\ Events[resp.event].source.t = "str"
     /\ Events[resp.event].source.s \in InternalNames)
    => resp.alerts = <<>> /\ resp.code = 200

\* C3, witness: an internal legacy event was answered while an enabled rule
\* matched it.
C3_Witness ==
    /\ resp.op = "analyze"
    /\ resp.why = "internal"
    /\ ~IsOcsf(Events[resp.event])
    /\ \E i \in 1..Len(sigma_rules) :
          sigma_rules[i].enabled /\ match_rule(sigma_rules[i], Events[resp.event])

\* C4: once toggle(id, false) has succeeded, and while nothing has set the
\* id's state back to enabled, no /analyze call returns an alert whose
\* rule_id is id.
C4_DisabledNeverAlerts ==
    [][(/\ IsAnalyzeStep
        /\ resp.op = "toggle"
        /\ resp.code = 200
        /\ ~resp.enabled
        /\ ~rule_states[resp.rule_id])
       => \A k \in 1..Len(resp'.alerts) :
             resp'.alerts[k].rule_id # resp.rule_id]_vars

\* C5: /rules/toggle with a rule_id that matches no loaded rule answers 404.
C5_UnknownToggleIs404 ==
    (/\ resp.op = "toggle"
     /\ \A i \in 1..Len(sigma_rules) : sigma_rules[i].id # resp.rule_id)
    => resp.code = 404

\* C6: a rule whose detection is a selection with no fields matches no event.
C6_EmptySelectionNeverMatches ==
    \A i \in 1..Len(sigma_rules) : \A e \in 1..Len(Events) :
        (/\ "selection" \in DOMAIN sigma_rules[i].detection
         /\ sigma_rules[i].detection.selection.isdict
         /\ sigma_rules[i].detection.selection.fields = EmptyDict)
        => ~Matches(sigma_rules[i], Events[e])

\* C7: the ids of the loaded rules are pairwise distinct.
C7_IdsDistinct ==
    pc = "running" =>
        \A i, j \in 1..Len(sigma_rules) :
            sigma_rules[i].id = sigma_rules[j].id => i = j

\* C8: after startup's load, whatever its outcome, /rules lists as many rules
\* as /stats reports in total_rules.
C8_RulesMatchTotal ==
    pc = "running" =>
        /\ list_rules.total = Len(list_rules.rules)
        /\ list_rules.total = get_stats.total_rules

\* C9: after load, each rule's enabled flag is the value the rule-state map
\* holds for its id, and False when the map has no entry for it.
C9_EnabledFromState ==
    pc = "running" =>
        \A i \in 1..Len(sigma_rules) :
            sigma_rules[i].enabled =
                (/\ sigma_rules[i].id \in DOMAIN rule_states
                 /\ rule_states[sigma_rules[i].id])

\* C9, witness: a load that enabled one rule from the map and left disabled a
\* rule the map has no entry for.
C9_Witness ==
    /\ pc = "running"
    /\ \E i, j \in 1..Len(sigma_rules) :
          /\ sigma_rules[i].enabled
          /\ sigma_rules[j].id \notin DOMAIN rule_states
          /\ ~sigma_rules[j].enabled

\* A file the claim counts as a valid rule file: a .yml/.yaml file that
\* parses to a mapping with a detection and a title that make a Rule.
IsValidFile(file) ==
    /\ file.ext \in {"yml", "yaml"}
    /\ file.doc.kind = "map"
    /\ {"detection", "title"} \subseteq DOMAIN file.doc.data
    /\ file.doc.data.detection.isdict
    /\ ("logsource" \in DOMAIN file.doc.data => file.doc.data.logsource.isdict)

\* The id and title of each valid file, in walk order.
ValidInOrder(files) ==
    LET valid == SelectSeq(files, IsValidFile)
    IN [i \in 1..Len(valid) |->
           <<IF "id" \in DOMAIN valid[i].doc.data THEN valid[i].doc.data.id
             ELSE valid[i].stem,
             valid[i].doc.data.title>>]

\* C10: when the only faults are bad files (the walk itself does not raise),
\* load returns exactly the rules of the valid files, in walk order.
C10_BadFilesSkipped ==
    (pc = "running" /\ walk_errors = 0) =>
        [i \in 1..Len(sigma_rules) |->
            <<sigma_rules[i].id, sigma_rules[i].title>>] = ValidInOrder(disk.files)

\* C10, witness: a load that went past a bad rule file and kept the valid
\* rule found after it.
C10_Witness ==
    /\ pc = "running"
    /\ walk_errors = 0
    /\ Len(disk.files) >= 2
    /\ IsRuleFile(disk.files[1])
    /\ ~IsValidFile(disk.files[1])
    /\ IsValidFile(disk.files[2])
    /\ Len(sigma_rules) = 1

\* C11: when the load completed (directory verified, walk finished), the
\* status is operational once startup has finished, whatever the number of
\* valid rules, zero included.
C11_LoadedIsOperational ==
    (pc = "running" /\ stats.rules_loaded) => stats.status = "operational"

\* A step in which the refresh task applies the answer of its fetch.
IsRefreshApplyStep == inflight.busy /\ ~inflight'.busy

\* C12: when the status is degraded, a periodic refresh whose fetch succeeded
\* (here: it even answered a non-empty map) sets the status to operational.
C12_RefreshLeavesDegraded ==
    [][(/\ IsRefreshApplyStep
        /\ inflight.api_states # EmptyDict
        /\ stats.status = "degraded")
       => stats'.status = "operational"]_vars

\* C13: when every fetch of the rule states that startup attempted failed,
\* the status is degraded once startup has completed.
C13_FetchExhaustionDegrades ==
    (/\ pc = "running"
     /\ fetch_log # <<>>
     /\ \A i \in 1..Len(fetch_log) : ~fetch_log[i])
    => stats.status = "degraded"

\* A step of /rules/toggle: outside a refresh, it is the only handler that
\* writes rule_states or a rule's flag, and a toggle that writes neither
\* changes the last answer.
IsToggleStep ==
    /\ ~IsRefreshApplyStep
    /\ pc = "running"
    /\ \/ rule_states' # rule_states
       \/ sigma_rules' # sigma_rules
       \/ resp'.op = "toggle" /\ resp' # resp

\* A step in which the refresh task's fetch fails: it gets {} although the
\* store holds states.
IsFailedFetchStep ==
    /\ ~inflight.busy
    /\ inflight'.busy
    /\ inflight'.api_states # store

\* Every loaded rule the store holds a state for has that state as its flag.
Consistent ==
    \A i \in 1..Len(sigma_rules) :
        sigma_rules[i].id \in DOMAIN store
            => sigma_rules[i].enabled = store[sigma_rules[i].id]

\* C14: if from some point on the store's map does not change and is not
\* empty, no fetch fails and no toggle arrives, then eventually every loaded
\* rule with an entry in the store has the store's value as its enabled flag,
\* and keeps it.
C14_EventuallyConsistent ==
    (/\ <>[][/\ store' = store
             /\ ~IsToggleStep
             /\ ~IsFailedFetchStep]_vars
     /\ <>[](store # EmptyDict))
    => <>[]Consistent

\* C14, witness: startup's fetch failed and no request was ever made, the
\* store holds r1 enabled, and a refresh has enabled the loaded rule r1.
C14_Witness ==
    /\ pc = "running"
    /\ fetch_log = <<FALSE>>
    /\ resp = NoResp
    /\ ~inflight.busy
    /\ "r1" \in DOMAIN store /\ store["r1"]
    /\ \E i \in 1..Len(sigma_rules) :
          sigma_rules[i].id = "r1" /\ sigma_rules[i].enabled
    /\ Consistent

\* The metadata match_rule reads from a legacy event (line 299).
MetadataOf(log_entry) ==
    LET md == Get(log_entry, "metadata", EmptyDict)
    IN IF md # EmptyDict THEN md ELSE Get(log_entry, "log_metadata", EmptyDict)

\* A dict of text with every value in lower case.
LowerValues(d) == [k \in DOMAIN d |-> Lower(d[k])]

\* Two legacy events that differ at most in the letter case of their
\* metadata values (and in their id).
EventCaseVariants(e1, e2) ==
    /\ ~IsOcsf(e1) /\ ~IsOcsf(e2)
    /\ "source" \in DOMAIN e1 /\ "source" \in DOMAIN e2
    /\ e1.source = e2.source
    /\ LowerValues(MetadataOf(e1)) = LowerValues(MetadataOf(e2))

\* The pairs of events of the model (indices in Events) that are such
\* variants of each other.
CaseVariantPairs ==
    {pair \in (1..Len(Events)) \X (1..Len(Events)) :
        EventCaseVariants(Events[pair[1]], Events[pair[2]])}

\* A rule whose detection is a selection of exact-match fields with one
\* value each.
IsExactSelection(rule) ==
    /\ "selection" \in DOMAIN rule.detection
    /\ rule.detection.selection.isdict
    /\ rule.detection.selection.fields # EmptyDict
    /\ \A f \in DOMAIN rule.detection.selection.fields :
          /\ ~Contains(s_contains_mod, f)
          /\ rule.detection.selection.fields[f].t = "str"

\* Two such rules that differ at most in the letter case of their values.
RuleCaseVariants(r1, r2) ==
    /\ r1.logsource = r2.logsource
    /\ DOMAIN r1.detection.selection.fields = DOMAIN r2.detection.selection.fields
    /\ \A f \in DOMAIN r1.detection.selection.fields :
          Lower(r1.detection.selection.fields[f].s)
              = Lower(r2.detection.selection.fields[f].s)

\* C15: for exact-match selections the matcher's result does not depend on
\* the letter case of the rule's value nor of the metadata value.
C15_ExactMatchIgnoresCase ==
    \A i, j \in 1..Len(sigma_rules) :
        (/\ IsExactSelection(sigma_rules[i])
         /\ IsExactSelection(sigma_rules[j])
         /\ RuleCaseVariants(sigma_rules[i], sigma_rules[j]))
        => \A pair \in CaseVariantPairs :
              match_rule(sigma_rules[i], Events[pair[1]])
                  <=> match_rule(sigma_rules[j], Events[pair[2]])

\* C15, witness: the rule with value "Admin" has raised the alert for the
\* event whose user is "ADMIN", with its upper-case variant loaded after it.
C15_Witness ==
    /\ resp.op = "analyze"
    /\ Events[resp.event] = ev_admin
    /\ Len(resp.alerts) = 1
    /\ resp.alerts[1].rule_id = "r3"
    /\ \E i, j \in 1..Len(sigma_rules) :
          /\ i # j
          /\ sigma_rules[i].id = "r3"
          /\ sigma_rules[i].detection.selection.fields[s_user] = Str(s_Admin)
          /\ RuleCaseVariants(sigma_rules[i], sigma_rules[j])

\* A rule with an empty logsource whose selection is one field f|contains.
IsContainsRule(rule) ==
    /\ rule.logsource = EmptyDict
    /\ "selection" \in DOMAIN rule.detection
    /\ rule.detection.selection.isdict
    /\ Cardinality(DOMAIN rule.detection.selection.fields) = 1
    /\ \A f \in DOMAIN rule.detection.selection.fields :
          Contains(s_contains_mod, f)

\* The rule's value, or one of the values of its list, is a substring of the
\* metadata value of f, letter case apart.
ValueInMetadata(rule, log_entry) ==
    \E f \in DOMAIN rule.detection.selection.fields :
        LET v == rule.detection.selection.fields[f]
            field_value == Lower(Get(MetadataOf(log_entry), BeforeBar(f), s_empty))
            vs == IF v.t = "list" THEN {v.l[k] : k \in 1..Len(v.l)} ELSE {v.s}
        IN \E x \in vs : Contains(Lower(x), field_value)

\* C16: when /analyze accepts a legacy event (its source a text) and the
\* first enabled rule that could alert is a rule with an empty logsource and
\* one field f|contains, the answer is that rule's alert iff the rule's
\* value is a case-insensitive substring of the metadata value of f.
C16_ContainsIsSubstring ==
    [][\A i \in 1..Len(sigma_rules) :
          (/\ IsAnalyzeStep
           /\ resp'.op = "analyze"
           /\ resp'.why \in {"analysed", "error"}
           /\ ~IsOcsf(Events[resp'.event])
           /\ Get(Events[resp'.event], "source", Str(s_unknown)).t = "str"
           /\ sigma_rules[i].enabled
           /\ IsContainsRule(sigma_rules[i])
           /\ \A j \in 1..(i - 1) :
                 ~(sigma_rules[j].enabled
                   /\ Matches(sigma_rules[j], Events[resp'.event])))
          => ((/\ Len(resp'.alerts) = 1
               /\ resp'.alerts[1].rule_id = sigma_rules[i].id
               /\ resp'.alerts[1].rule_name = sigma_rules[i].title)
              <=> ValueInMetadata(sigma_rules[i], Events[resp'.event]))]_vars

\* C16, witness: the rule with the list of values has raised the alert for
\* the event whose product is "OpenSSH".
C16_Witness ==
    /\ resp.op = "analyze"
    /\ Events[resp.event] = ev_ssh_upper
    /\ Len(resp.alerts) = 1
    /\ resp.alerts[1].rule_id = "r5"
    /\ sigma_rules # <<>>
    /\ IsContainsRule(sigma_rules[1])
    /\ sigma_rules[1].id = "r5"
    /\ sigma_rules[1].enabled

\* The table sigma_to_ocsf_mapping of match_ocsf_rule (lines 408-423): the
\* OCSF names each Sigma category stands for.
sigma_to_ocsf_mapping ==
    \* process_creation: process activity, process creation
    (<<112, 114, 111, 99, 101, 115, 115, 95, 99, 114, 101, 97, 116, 105, 111, 110>> :>
        {<<112, 114, 111, 99, 101, 115, 115, 32, 97, 99, 116, 105, 118, 105, 116, 121>>,
         <<112, 114, 111, 99, 101, 115, 115, 32, 99, 114, 101, 97, 116, 105, 111, 110>>}) @@
    \* process_access: process activity, process access
    (<<112, 114, 111, 99, 101, 115, 115, 95, 97, 99, 99, 101, 115, 115>> :>
        {<<112, 114, 111, 99, 101, 115, 115, 32, 97, 99, 116, 105, 118, 105, 116, 121>>,
         <<112, 114, 111, 99, 101, 115, 115, 32, 97, 99, 99, 101, 115, 115>>}) @@
    \* process_termination: process activity, process termination
    (<<112, 114, 111, 99, 101, 115, 115, 95, 116, 101, 114, 109, 105, 110, 97, 116, 105, 111, 110>> :>
        {<<112, 114, 111, 99, 101, 115, 115, 32, 97, 99, 116, 105, 118, 105, 116, 121>>,
         <<112, 114, 111, 99, 101, 115, 115, 32, 116, 101, 114, 109, 105, 110, 97, 116, 105, 111, 110>>}) @@
    \* file_event: file system, file activity
    (<<102, 105, 108, 101, 95, 101, 118, 101, 110, 116>> :>
        {<<102, 105, 108, 101, 32, 115, 121, 115, 116, 101, 109>>,
         <<102, 105, 108, 101, 32, 97, 99, 116, 105, 118, 105, 116, 121>>}) @@
    \* file_access: file system, file access
    (<<102, 105, 108, 101, 95, 97, 99, 99, 101, 115, 115>> :>
        {<<102, 105, 108, 101, 32, 115, 121, 115, 116, 101, 109>>,
         <<102, 105, 108, 101, 32, 97, 99, 99, 101, 115, 115>>}) @@
    \* file_change: file system, file modification
    (<<102, 105, 108, 101, 95, 99, 104, 97, 110, 103, 101>> :>
        {<<102, 105, 108, 101, 32, 115, 121, 115, 116, 101, 109>>,
         <<102, 105, 108, 101, 32, 109, 111, 100, 105, 102, 105, 99, 97, 116, 105, 111, 110>>}) @@
    \* file_delete: file system, file deletion
    (<<102, 105, 108, 101, 95, 100, 101, 108, 101, 116, 101>> :>
        {<<102, 105, 108, 101, 32, 115, 121, 115, 116, 101, 109>>,
         <<102, 105, 108, 101, 32, 100, 101, 108, 101, 116, 105, 111, 110>>}) @@
    \* registry_event: registry, registry activity
    (<<114, 101, 103, 105, 115, 116, 114, 121, 95, 101, 118, 101, 110, 116>> :>
        {<<114, 101, 103, 105, 115, 116, 114, 121>>,
         <<114, 101, 103, 105, 115, 116, 114, 121, 32, 97, 99, 116, 105, 118, 105, 116, 121>>}) @@
    \* network_connection: network, network connection
    (<<110, 101, 116, 119, 111, 114, 107, 95, 99, 111, 110, 110, 101, 99, 116, 105, 111, 110>> :>
        {<<110, 101, 116, 119, 111, 114, 107>>,
         <<110, 101, 116, 119, 111, 114, 107, 32, 99, 111, 110, 110, 101, 99, 116, 105, 111, 110>>}) @@
    \* dns_query: network, dns activity
    (<<100, 110, 115, 95, 113, 117, 101, 114, 121>> :>
        {<<110, 101, 116, 119, 111, 114, 107>>,
         <<100, 110, 115, 32, 97, 99, 116, 105, 118, 105, 116, 121>>}) @@
    \* authentication: identity & access management, authentication
    (<<97, 117, 116, 104, 101, 110, 116, 105, 99, 97, 116, 105, 111, 110>> :>
        {<<105, 100, 101, 110, 116, 105, 116, 121, 32, 38, 32, 97, 99, 99, 101, 115, 115, 32, 109, 97, 110, 97, 103, 101, 109, 101, 110, 116>>,
         <<97, 117, 116, 104, 101, 110, 116, 105, 99, 97, 116, 105, 111, 110>>}) @@
    \* firewall: network, firewall activity
    (<<102, 105, 114, 101, 119, 97, 108, 108>> :>
        {<<110, 101, 116, 119, 111, 114, 107>>,
         <<102, 105, 114, 101, 119, 97, 108, 108, 32, 97, 99, 116, 105, 118, 105, 116, 121>>}) @@
    \* web: application, web activity
    (<<119, 101, 98>> :>
        {<<97, 112, 112, 108, 105, 99, 97, 116, 105, 111, 110>>,
         <<119, 101, 98, 32, 97, 99, 116, 105, 118, 105, 116, 121>>}) @@
    \* antivirus: security findings, malware finding
    (<<97, 110, 116, 105, 118, 105, 114, 117, 115>> :>
        {<<115, 101, 99, 117, 114, 105, 116, 121, 32, 102, 105, 110, 100, 105, 110, 103, 115>>,
         <<109, 97, 108, 119, 97, 114, 101, 32, 102, 105, 110, 100, 105, 110, 103>>})

\* The rule's logsource.category has synonyms in the table and none of them
\* is in the event's category_name or activity_name, letter case apart.
CategoryMismatch(rule, log_entry) ==
    LET rule_category == Lower(Get(rule.logsource, s_category, s_empty))
        ocsf_category == Lower(Get(log_entry, "category_name", s_empty))
        ocsf_activity == Lower(Get(log_entry, "activity_name", s_empty))
    IN /\ rule_category \in DOMAIN sigma_to_ocsf_mapping
       /\ \A mapping \in sigma_to_ocsf_mapping[rule_category] :
             /\ ~Contains(mapping, ocsf_category)
             /\ ~Contains(mapping, ocsf_activity)

\* C17: the OCSF matcher returns false for every OCSF event and every rule
\* whose category has synonyms none of which is in the event's category_name
\* or activity_name, whatever the rule's detection.
C17_CategoryMismatchNeverMatches ==
    \A i \in 1..Len(sigma_rules) : \A e \in 1..Len(Events) :
        (IsOcsf(Events[e]) /\ CategoryMismatch(sigma_rules[i], Events[e]))
        => ~match_ocsf_rule(sigma_rules[i], Events[e])

\* repr() of a dict of text -> text: {'k': 'v', ...}
ReprTextDict(d) ==
    LET ks == SortedKeys(DOMAIN d)
    IN <<123>>
       \o JoinComma([i \in 1..Len(ks) |->
              <<39>> \o ks[i] \o <<39, 58, 32, 39>> \o d[ks[i]] \o <<39>>])
       \o <<125>>

\* str() of the value of a top-level key.
StrField(k, v) ==
    IF k = "id" THEN (IF v < 10 THEN <<48 + v>>
                      ELSE <<48 + (v \div 10), 48 + (v % 10)>>)
    ELSE IF k = "source" THEN (IF v.t = "str" THEN v.s ELSE <<78, 111, 110, 101>>)
    ELSE IF k \in {"metadata", "log_metadata", "raw_event"} THEN ReprTextDict(v)
    ELSE v

\* combined_data = {**raw_event, **log_entry} (line 363), each value as str()
\* gives it.
combined_data(log_entry) ==
    LET raw_event == Get(log_entry, "raw_event", EmptyDict)
        top == [kt \in {KeyText[k] : k \in DOMAIN log_entry} |->
                   LET k == CHOOSE k \in DOMAIN log_entry : KeyText[k] = kt
                   IN StrField(k, log_entry[k])]
    IN Update(raw_event, top)

\* check_detection_conditions (lines 588-630) on the combined data of the
\* event: the selection and keywords checks of match_rule.
check_detection_conditions(detection, log_entry) ==
    IF "selection" \in DOMAIN detection
    THEN IF ~detection.selection.isdict THEN FALSE
         ELSE SelectionMatches(detection.selection.fields, combined_data(log_entry))
    ELSE IF "keywords" \in DOMAIN detection
    THEN KeywordsMatch(detection.keywords, Lower(json_dumps_combined(log_entry)))
    ELSE FALSE

\* C18: for every OCSF event and every rule whose detection is a selection,
\* the OCSF matcher answers what the selection check answers on the combined
\* map of raw_event and the top-level fields.
C18_OcsfSelectionAsLegacy ==
    \A i \in 1..Len(sigma_rules) : \A e \in 1..Len(Events) :
        (/\ IsOcsf(Events[e])
         /\ "selection" \in DOMAIN sigma_rules[i].detection
         /\ sigma_rules[i].detection.selection.isdict)
        => (match_ocsf_rule(sigma_rules[i], Events[e])
                <=> check_detection_conditions(sigma_rules[i].detection, Events[e]))

\* C19: what /stats reports as alerts_last_24h is the length of the alert
\* window pruned at the time of the read: no alert raised more than 24 hours
\* before the read is counted.
C19_StatsCountIsPruned ==
    pc = "running" =>
        get_stats.alerts_last_24h
            = Len(DropOlder(stats.alerts, now - WindowHours))

\* C20: when the store has committed v for a rule id and the engine has
\* applied toggle(id, v), a refresh that applies an answer produced before
\* the commit (it holds another value for id) does not take the flag of a
\* rule with that id away from v.
C20_RefreshKeepsNewerToggle ==
    [][(/\ IsRefreshApplyStep
        /\ resp.op = "toggle"
        /\ resp.code = 200
        /\ resp.rule_id \in DOMAIN store
        /\ store[resp.rule_id] = resp.enabled
        /\ resp.rule_id \in DOMAIN inflight.api_states
        /\ inflight.api_states[resp.rule_id] # resp.enabled)
       => \A i \in 1..Len(sigma_rules) :
             (/\ sigma_rules[i].id = resp.rule_id
              /\ sigma_rules[i].enabled = resp.enabled)
             => sigma_rules'[i].enabled = resp.enabled]_vars

\* C21: a /rules/toggle call whose rule_id matches no loaded rule changes
\* nothing: rule_states, every rule's flag, enabled_rules and the status are
\* what they were.
C21_UnknownToggleChangesNothing ==
    [][(/\ pc = "running"
        /\ resp'.op = "toggle"
        /\ resp' # resp
        /\ \A i \in 1..Len(sigma_rules) : sigma_rules[i].id # resp'.rule_id)
       => /\ rule_states' = rule_states
          /\ sigma_rules' = sigma_rules
          /\ stats'.enabled_rules = stats.enabled_rules
          /\ stats'.status = stats.status]_vars

\* C22: a refresh that applies a non-empty answer M leaves the rule list as
\* it is but for the flags: a rule whose id is a key of M gets M[id], any
\* other rule keeps its flag.
C22_RefreshPatchesInPlace ==
    [][(IsRefreshApplyStep /\ inflight.api_states # EmptyDict)
       => /\ Len(sigma_rules') = Len(sigma_rules)
          /\ \A i \in 1..Len(sigma_rules) :
                /\ [sigma_rules'[i] EXCEPT !.enabled = FALSE]
                       = [sigma_rules[i] EXCEPT !.enabled = FALSE]
                /\ sigma_rules'[i].enabled
                       = IF sigma_rules[i].id \in DOMAIN inflight.api_states
                         THEN inflight.api_states[sigma_rules[i].id]
                         ELSE sigma_rules[i].enabled]_vars

\* C22, witness: startup's fetch failed, /rules/toggle enabled r2 and was the
\* last request, and a refresh applied the store's {r1: true}: r1 is enabled
\* and rule_states holds the store's entry, r2 kept its flag.
C22_Witness ==
    /\ pc = "running"
    /\ fetch_log = <<FALSE>>
    /\ ~inflight.busy
    /\ store = ("r1" :> TRUE)
    /\ rule_states = ("r1" :> TRUE) @@ ("r2" :> TRUE)
    /\ resp.op = "toggle" /\ resp.rule_id = "r2" /\ resp.enabled
    /\ Len(sigma_rules) = 2
    /\ \A i \in 1..2 : sigma_rules[i].id \in {"r1", "r2"} /\ sigma_rules[i].enabled
    /\ sigma_rules[1].id # sigma_rules[2].id

\* A step in which the refresh task's fetch returns.
IsRefreshFetchStep == ~inflight.busy /\ inflight'.busy

\* C23: the fetch of the refresh task returns the store's map or, when it
\* fails, the empty map, and the task lives on; applying an empty answer
\* leaves the flags, rule_states, enabled_rules and the status as they were
\* and puts the task back to waiting for its next interval.
C23_FailedRefreshChangesNothing ==
    [][/\ IsRefreshFetchStep
          => /\ inflight'.api_states \in {store, EmptyDict}
             /\ pc' = "running"
       /\ (IsRefreshApplyStep /\ inflight.api_states = EmptyDict)
          => /\ sigma_rules' = sigma_rules
             /\ rule_states' = rule_states
             /\ stats'.enabled_rules = stats.enabled_rules
             /\ stats'.status = stats.status
             /\ inflight' = Idle
             /\ pc' = "running"]_vars

\* C23, witness: the store holds states the engine does not have, a rule is
\* enabled, the status is operational, and the refresh task holds the empty
\* answer of a failed fetch.
C23_Witness ==
    /\ pc = "running"
    /\ inflight.busy
    /\ inflight.api_states = EmptyDict
    /\ store # EmptyDict
    /\ \E id \in DOMAIN store : Get(rule_states, id, ~store[id]) # store[id]
    /\ \E i \in 1..Len(sigma_rules) : sigma_rules[i].enabled
    /\ stats.status = "operational"

\* C24: once startup has finished, stats.enabled_rules is the number of
\* loaded rules whose enabled flag is true.
C24_EnabledRulesIsCount ==
    pc = "running" => stats.enabled_rules = CountEnabled(sigma_rules)

\* C25: rule loading starts only after a fetch of the rule states has
\* succeeded or fetch_max_retries fetches have been made.
C25_FetchRetriedBeforeLoad ==
    pc # "fetch" =>
        \/ Len(fetch_log) = fetch_max_retries
        \/ (fetch_log # <<>> /\ fetch_log[Len(fetch_log)])

\* A step of load_rules in which an attempt whose verification of the rules
\* directory succeeded comes to its end.
IsVerifiedAttemptStep ==
    /\ pc = "load"
    /\ setup_rules_directory(disk)
    /\ <<pc, attempt, rules, sigma_rules, stats, walk_errors>>'
           # <<pc, attempt, rules, sigma_rules, stats, walk_errors>>

\* load_rules returns without any attempt having passed the verification.
IsUnverifiedReturnStep ==
    /\ pc = "load"
    /\ pc' = "running"
    /\ walk_errors' = 0
    /\ ~stats'.rules_loaded

\* When the verification failed on every attempt, load_rules stops with its
\* third attempt, returns no rule, the status is degraded and rules_loaded
\* is false.
ExhaustedVerification ==
    IsUnverifiedReturnStep
    => /\ attempt' + 1 = load_max_retries
       /\ sigma_rules' = <<>>
       /\ stats'.status = "degraded"
       /\ ~stats'.rules_loaded

\* C26 as stated: ... and an attempt whose verification succeeds is the last
\* one.
C26_VerifiedAttemptIsLast ==
    [][/\ ExhaustedVerification
       /\ IsVerifiedAttemptStep => pc' = "running"]_vars

\* C26: ... and an attempt whose verification succeeds and whose walk
\* completes is the last one: load_rules returns and rules_loaded is true.
C26_CompletedAttemptIsLast ==
    [][/\ ExhaustedVerification
       /\ (IsVerifiedAttemptStep /\ walk_errors' = walk_errors)
          => (pc' = "running" /\ stats'.rules_loaded)]_vars

\* C26, witness: the verification failed on the first attempt, the directory
\* was provisioned, and the second attempt verified it, completed its walk
\* and was the last.
C26_Witness ==
    /\ pc = "running"
    /\ attempt = 1
    /\ walk_errors = 0
    /\ stats.rules_loaded
    /\ sigma_rules # <<>>

\* The enabled rules of `rs`, before position m, whose matcher raised on the
\* event (legacy events: match_rule).
RaisedBefore(rs, log_entry, m) ==
    {i \in 1..(m - 1) : /\ rs[i].enabled
                        /\ ~IsOcsf(log_entry)
                        /\ match_rule_raises(rs[i], log_entry)}

\* C27: during analyze, an error raised while matching one enabled rule is a
\* non-match for that rule only: a later enabled rule that matches still
\* produces the alert, and the request does not fail.
C27_MatcherErrorIsNonMatch ==
    [][(/\ IsAnalyzeStep
        /\ resp'.why \in {"analysed", "error"}
        /\ LET m == FirstMatch(sigma_rules, Events[resp'.event])
           IN m # 0 /\ RaisedBefore(sigma_rules, Events[resp'.event], m) # {})
       => /\ resp'.code = 200
          /\ resp'.alerts =
                <<MakeAlert(sigma_rules[FirstMatch(sigma_rules,
                                                   Events[resp'.event])],
                            Events[resp'.event])>>
          /\ stats'.status = stats.status]_vars

\* The last n items of a sequence.
LastN(s, n) ==
    IF Len(s) <= n THEN s ELSE SubSeq(s, Len(s) - n + 1, Len(s))

\* The items of a sequence.
Range(s) == {s[i] : i \in 1..Len(s)}

\* C28: the dedup ring holds at most DedupCap (1000 in the source) ids, all
\* distinct, in acceptance order with FIFO eviction: it is always the last
\* DedupCap accepted ids, and an event that is not internal telemetry and
\* carries an id is rejected as a duplicate iff its id is among them, so
\* an id pushed out by DedupCap other ids is accepted and analysed again.
C28_RingIsLastAccepted ==
    [][/\ Len(stats'.processed_log_ids) <= DedupCap
       /\ \A i, j \in 1..Len(stats'.processed_log_ids) :
             i # j => stats'.processed_log_ids[i] # stats'.processed_log_ids[j]
       /\ stats'.processed_log_ids = LastN(accepted_ids', DedupCap)
       /\ (IsAnalyzeStep /\ resp'.why # "internal"
                         /\ "id" \in DOMAIN Events[resp'.event])
          => /\ (resp'.why = "duplicate")
                   <=> Events[resp'.event].id
                          \in Range(LastN(accepted_ids, DedupCap))
             /\ resp'.why # "duplicate"
                   => accepted_ids'
                         = Append(accepted_ids, Events[resp'.event].id)]_vars

\* C28, witness: an id was accepted, DedupCap other distinct ids were
\* accepted after it, and the same id has just been accepted and analysed
\* again.
C28_Witness ==
    /\ resp.op = "analyze"
    /\ resp.why = "analysed"
    /\ "id" \in DOMAIN Events[resp.event]
    /\ accepted_ids # <<>>
    /\ accepted_ids[Len(accepted_ids)] = Events[resp.event].id
    /\ \E i \in 1..Len(accepted_ids) - 1 :
          /\ accepted_ids[i] = Events[resp.event].id
          /\ Cardinality({accepted_ids[k] : k \in (i + 1)..(Len(accepted_ids) - 1)}
                            \ {accepted_ids[i]}) >= DedupCap

\* C29: processed_logs increases by exactly 1 on each analyze call that
\* passes both the internal-service filter and the dedup check, whether or
\* not a rule matches; a call rejected as a duplicate or as internal
\* telemetry leaves processed_logs, the rate samples, the alert window and
\* the dedup ring unchanged and evaluates no rule (it returns no alert).
C29_CountedIffAccepted ==
    [][IsAnalyzeStep =>
          LET log_entry == Events[resp'.event]
              internal == IsInternal(log_entry)
              duplicate == IsDuplicate(stats.processed_log_ids, log_entry)
          IN IF internal \/ duplicate
             THEN /\ stats'.processed_logs = stats.processed_logs
                  /\ stats'.last_minute_logs = stats.last_minute_logs
                  /\ stats'.alerts = stats.alerts
                  /\ stats'.processed_log_ids = stats.processed_log_ids
                  /\ resp'.alerts = <<>>
             ELSE stats'.processed_logs = stats.processed_logs + 1]_vars

\* C29, witness: a call was counted although no rule matched, and a later
\* call with the same id was rejected as a duplicate, leaving the counter at
\* 1, although an enabled rule matches its event.
C29_Witness ==
    /\ resp.op = "analyze"
    /\ resp.why = "duplicate"
    /\ stats.processed_logs = 1
    /\ stats.alerts = <<>>
    /\ stats.status = "operational"
    /\ Hits(sigma_rules, Events[resp.event]) # {}

\* C30: a legacy event and an OCSF event that carry the same id value are
\* both analysed: when the only call analysed so far was an event of one
\* shape, a call with an event of the other shape and the same id is not
\* dropped as a duplicate; it is counted.
C30_SameIdOtherShapeAnalysed ==
    [][(/\ IsAnalyzeStep
        /\ resp.op = "analyze"
        /\ resp.why = "analysed"
        /\ stats.processed_logs = 1
        /\ "id" \in DOMAIN Events[resp.event]
        /\ "id" \in DOMAIN Events[resp'.event]
        /\ Events[resp.event].id = Events[resp'.event].id
        /\ IsOcsf(Events[resp.event]) # IsOcsf(Events[resp'.event])
        /\ ~IsInternal(Events[resp'.event]))
       => /\ resp'.why # "duplicate"
          /\ stats'.processed_logs = 2]_vars

\* C31: the flag writes and the recomputation of enabled_rules done by one
\* refresh, and by one toggle, take effect atomically: every state a request
\* can observe has enabled_rules equal to the number of enabled rules, and
\* after a refresh has applied a non-empty answer every rule the answer names
\* carries the answer's flag (no partially applied refresh).
C31_WritesAreAtomic ==
    [][pc' = "running" =>
          /\ stats'.enabled_rules = CountEnabled(sigma_rules')
          /\ (IsRefreshApplyStep /\ inflight.api_states # EmptyDict)
             => \A i \in 1..Len(sigma_rules') :
                   sigma_rules'[i].id \in DOMAIN inflight.api_states
                      => sigma_rules'[i].enabled
                            = inflight.api_states[sigma_rules'[i].id]]_vars

\* C31, witness: two rules were loaded enabled from the store's answer, the
\* store then disabled both, no toggle was sent, and a refresh has applied
\* the store's map: both flags are off and enabled_rules is 0.
C31_Witness ==
    /\ pc = "running"
    /\ fetch_log = <<TRUE>>
    /\ resp.op # "toggle"
    /\ ~inflight.busy
    /\ store = ("r1" :> FALSE) @@ ("r2" :> FALSE)
    /\ rule_states = store
    /\ Len(sigma_rules) = 2
    /\ sigma_rules[1].id # sigma_rules[2].id
    /\ \A i \in 1..2 : ~sigma_rules[i].enabled
    /\ stats.enabled_rules = 0
    /\ stats.total_rules = 2

\* C32: startup always terminates: whether or not the store answers and
\* whether or not the rules directory is populated, startup makes at most
\* fetch_max_retries fetch attempts and at most load_max_retries load
\* attempts, completes with status operational or degraded, and the refresh
\* task it started makes its first fetch.
C32_StartupTerminates ==
    /\ [](/\ Len(fetch_log) <= fetch_max_retries
          /\ attempt < load_max_retries
          /\ pc = "running" => stats.status \in {"operational", "degraded"})
    /\ <>(pc = "running")
    /\ <>(pc = "running" /\ inflight.busy)

\* C32, witness: the store did not answer, the rules directory was never
\* populated, every load attempt was used up, and startup has completed
\* degraded with the refresh task waiting for the answer of its fetch.
C32_Witness ==
    /\ pc = "running"
    /\ fetch_log = <<FALSE>>
    /\ ~setup_rules_directory(disk)
    /\ attempt = load_max_retries - 1
    /\ stats.status = "degraded"
    /\ inflight.busy

\* C33: each load attempt starts from an empty rule list: the rules a failed
\* attempt collected are not carried over into the next attempt, so the list
\* load returns holds at most one rule per rule file.
C33_AttemptStartsEmpty ==
    /\ pc = "load" => rules = <<>>
    /\ pc = "running" => Len(sigma_rules) <= Len(disk.files)

\* C34: every alert raised within the last 24 hours is counted, for any
\* number of alerts (more than the 1440 of the source, AlertsCap here): when
\* no counted alert is older than 24 hours, raising an alert makes
\* alerts_last_24h one more than the number of alerts in the window.
C34_EveryAlertCounted ==
    [][(/\ IsAnalyzeStep
        /\ Len(resp'.alerts) = 1
        /\ stats.alerts_last_24h = Len(stats.alerts)
        /\ \A i \in 1..Len(stats.alerts) : stats.alerts[i] >= now - WindowHours)
       => stats'.alerts_last_24h = stats.alerts_last_24h + 1]_vars

\* The values of a rule value (a scalar or a list), in lower case.
ValuesOf(v) ==
    IF v.t = "list" THEN {Lower(v.l[k]) : k \in 1..Len(v.l)} ELSE {Lower(v.s)}

\* The logsource filter as the specification words it: product or service set
\* and no substring of the source, or the metadata's product / category
\* present and different from the rule's, letter case apart.
FilterFails(rule, log_entry) ==
    LET ls == rule.logsource
        src == Lower(log_entry.source.s)
        md == MetadataOf(log_entry)
        Set(k) == k \in DOMAIN ls /\ ls[k] # s_empty
    IN \/ Set(s_product) /\ ~Contains(Lower(ls[s_product]), src)
       \/ Set(s_service) /\ ~Contains(Lower(ls[s_service]), src)
       \/ /\ Set(s_product) /\ s_product \in DOMAIN md
          /\ Lower(md[s_product]) # Lower(ls[s_product])
       \/ /\ Set(s_category) /\ s_category \in DOMAIN md
          /\ Lower(md[s_category]) # Lower(ls[s_category])

\* One field of a selection, as the specification words it: with |contains
\* one of the rule's values is a substring of the metadata value, without it
\* the metadata value is one of the rule's values; letter case apart, an
\* absent field counting as the empty text.
FieldHolds(f, v, md) ==
    LET field_value == IF BeforeBar(f) \in DOMAIN md
                       THEN Lower(md[BeforeBar(f)]) ELSE s_empty
    IN IF Contains(s_contains_mod, f)
       THEN \E x \in ValuesOf(v) : Contains(x, field_value)
       ELSE field_value \in ValuesOf(v)

\* A rule whose detection has a non-empty selection.
HasSelection(rule) ==
    /\ "selection" \in DOMAIN rule.detection
    /\ rule.detection.selection.isdict
    /\ rule.detection.selection.fields # EmptyDict

\* The legacy events with a text as source the specification sends.
LegacySelEvents ==
    {Events[e] : e \in {x \in SelEvents : /\ ~IsOcsf(Events[x])
                                          /\ "source" \in DOMAIN Events[x]
                                          /\ Events[x].source.t = "str"}}

\* C35: for a legacy event and a loaded rule with a non-empty selection that
\* passes the logsource filter, the matcher returns true iff every field of
\* the selection passes; a field absent from the metadata whose rule values
\* are not empty makes the rule not match.
C35_SelectionIsAnd ==
    pc = "running" =>
        \A i \in 1..Len(sigma_rules) : \A ev \in LegacySelEvents :
            (HasSelection(sigma_rules[i]) /\ ~FilterFails(sigma_rules[i], ev))
            => LET fields == sigma_rules[i].detection.selection.fields
                   md == MetadataOf(ev)
               IN /\ match_rule(sigma_rules[i], ev)
                        <=> \A f \in DOMAIN fields : FieldHolds(f, fields[f], md)
                  /\ (\E f \in DOMAIN fields :
                         /\ BeforeBar(f) \notin DOMAIN md
                         /\ s_empty \notin ValuesOf(fields[f]))
                     => ~match_rule(sigma_rules[i], ev)

\* C35, witness: the rule with two fields is loaded and enabled; the last
\* call sent the event that has both fields and got the rule's alert, and
\* the events that have one of the two fields do not match the rule.
C35_Witness ==
    /\ pc = "running"
    /\ Len(sigma_rules) = 1
    /\ sigma_rules[1].id = "r7"
    /\ sigma_rules[1].enabled
    /\ Cardinality(DOMAIN sigma_rules[1].detection.selection.fields) = 2
    /\ resp.op = "analyze"
    /\ Events[resp.event] = ev_both
    /\ Len(resp.alerts) = 1
    /\ resp.alerts[1].rule_id = "r7"
    /\ ~match_rule(sigma_rules[1], ev_ssh)
    /\ ~match_rule(sigma_rules[1], ev_admin_lower)

\* C36: for a legacy event, the logsource filter comes before the detection:
\* if the rule's logsource product (or service) is set and is no
\* case-insensitive substring of the event's source, or the metadata's
\* product / category is present and differs, letter case apart, from the
\* rule's, the matcher returns false whatever the detection is.
C36_LogsourceFilterFirst ==
    pc = "running" =>
        \A i \in 1..Len(sigma_rules) : \A ev \in LegacySelEvents :
            FilterFails(sigma_rules[i], ev) => ~match_rule(sigma_rules[i], ev)

\* C36, witness: the rule with logsource product Apache and category
\* Authentication, whose keyword is in every serialized event, is loaded and
\* enabled; the last call sent the event from source Apache that agrees with
\* both and got the alert; the events with another product, another category
\* or another source do not match it.
C36_Witness ==
    /\ pc = "running"
    /\ Len(sigma_rules) = 1
    /\ sigma_rules[1].id = "r9"
    /\ sigma_rules[1].enabled
    /\ resp.op = "analyze"
    /\ Events[resp.event] = ev_web
    /\ Len(resp.alerts) = 1
    /\ resp.alerts[1].rule_id = "r9"
    /\ FilterFails(sigma_rules[1], ev_web_prod)
    /\ FilterFails(sigma_rules[1], ev_web_cat)
    /\ FilterFails(sigma_rules[1], ev_apache)
    /\ KeywordsMatch(sigma_rules[1].detection.keywords,
                     Lower(json_dumps(ev_web_cat)))
    /\ match_rule(sigma_rules[1], ev_web_bare)

\* C37: keywords are consulted only when the detection has no selection: a
\* legacy rule with keywords and no selection that passes the logsource
\* filter matches iff at least one keyword (or the single string) is a
\* case-insensitive substring of the serialized event; when a (non-empty)
\* selection is present it alone decides.
C37_KeywordsOnlyWithoutSelection ==
    pc = "running" =>
        \A i \in 1..Len(sigma_rules) : \A ev \in LegacySelEvents :
            LET rule == sigma_rules[i]
                detection == rule.detection
            IN ~FilterFails(rule, ev) =>
                  /\ ("keywords" \in DOMAIN detection
                        /\ "selection" \notin DOMAIN detection)
                     => (match_rule(rule, ev)
                            <=> \E kw \in ValuesOf(detection.keywords) :
                                   Contains(kw, Lower(json_dumps(ev))))
                  /\ ("keywords" \in DOMAIN detection /\ HasSelection(rule))
                     => (match_rule(rule, ev)
                            <=> \A f \in DOMAIN detection.selection.fields :
                                   FieldHolds(f, detection.selection.fields[f],
                                              MetadataOf(ev)))

\* C37, witness: the rule with the keywords sshd and Apache and no selection
\* is loaded and enabled; the last call sent the event that holds sshd and
\* not apache and got the alert, and the event that holds neither does not
\* match.
C37_Witness ==
    /\ pc = "running"
    /\ Len(sigma_rules) = 1
    /\ sigma_rules[1].id = "r11"
    /\ sigma_rules[1].enabled
    /\ "selection" \notin DOMAIN sigma_rules[1].detection
    /\ resp.op = "analyze"
    /\ Events[resp.event] = ev_sshd
    /\ Len(resp.alerts) = 1
    /\ resp.alerts[1].rule_id = "r11"
    /\ ~Contains(s_apache, Lower(json_dumps(ev_sshd)))
    /\ match_rule(sigma_rules[1], ev_web)
    /\ ~match_rule(sigma_rules[1], ev_admin_lower)

\* C38: the matcher looks up the selection's field names case-insensitively
\* in the event's metadata: when every field of a rule's selection (exact
\* match, no logsource) has a metadata key that is the same name, letter case
\* apart, whose value is the rule's value, the rule matches.
C38_FieldNamesIgnoreCase ==
    pc = "running" =>
        \A i \in 1..Len(sigma_rules) : \A ev \in LegacySelEvents :
            (/\ IsExactSelection(sigma_rules[i])
             /\ sigma_rules[i].logsource = EmptyDict
             /\ \A f \in DOMAIN sigma_rules[i].detection.selection.fields :
                   \E k \in DOMAIN MetadataOf(ev) :
                      /\ Lower(k) = Lower(f)
                      /\ Lower(MetadataOf(ev)[k])
                            \in ValuesOf(sigma_rules[i].detection.selection.fields[f]))
            => match_rule(sigma_rules[i], ev)

\* C39: /health reports degraded when the rules directory is missing,
\* starting when it exists and no load has completed, and the engine status
\* otherwise; hence once startup has finished with the engine status
\* degraded, /health does not report starting.
C39_HealthNotStartingOnceStarted ==
    /\ health_check.status =
          IF ~disk.root THEN "degraded"
          ELSE IF ~stats.rules_loaded THEN "starting"
          ELSE stats.status
    /\ (pc = "running" /\ stats.status = "degraded")
       => health_check.status # "starting"

\* A rule list with every flag cleared: what is left is the rules' other
\* fields in their order.
WithoutFlags(rs) == [i \in 1..Len(rs) |-> [rs[i] EXCEPT !.enabled = FALSE]]

\* C40: between loads the rule list is stable: once startup has loaded it,
\* analyze, toggle and refresh never add, remove or reorder rules and never
\* change a rule field other than enabled, so the order of evaluation is the
\* load order.
C40_RuleListStable ==
    [][(pc = "running" /\ pc' = "running")
       => WithoutFlags(sigma_rules') = WithoutFlags(sigma_rules)]_vars

\* C40, witness: two rules were loaded disabled (startup's fetch failed);
\* /analyze accepted an event, /rules/toggle enabled r2 and a refresh enabled
\* r1; the list is still the walk's list, flags apart.
C40_Witness ==
    /\ pc = "running"
    /\ fetch_log = <<FALSE>>
    /\ accepted_ids # <<>>
    /\ resp.op = "toggle" /\ resp.code = 200
    /\ resp.rule_id = "r2" /\ resp.enabled
    /\ Len(sigma_rules) = 2
    /\ sigma_rules[1].id = "r2" /\ sigma_rules[2].id = "r1"
    /\ \A i \in 1..2 : sigma_rules[i].enabled
    /\ WithoutFlags(sigma_rules) = WithoutFlags(Walk(disk.files, EmptyDict))

====
